---------------------------- MODULE Spec2Model ----------------------------
(***************************************************************************)
(* A model of the content-enhancement pipeline's engines:                  *)
(*   - ParallelAIEngine   (src/parallel-engine.ts)                         *)
(*   - PerformanceTracker (src/unnamed/part_001, lines 313-446)            *)
(* Each engine has its own specification over the shared variables; the    *)
(* variables of the engine a specification does not exercise stay at their *)
(* constructed values.                                                     *)
(***************************************************************************)
EXTENDS Integers, Sequences, FiniteSets, TLC

VARIABLES
    \* ---- ParallelAIEngine and the batch call in progress ----
    tasks,          \* the AITask[] handed to the engine
    maxConcurrent,  \* ParallelAIEngine.maxConcurrent
    entry,          \* the public method called: executeBatch | executeParallelBatch
    pc,             \* position of the async call
    groups,         \* executeBatch: priority groups not yet executed
    results,        \* executeBatch: const results
    chunks,         \* executeParallelBatch: chunks not yet dispatched
    allResults,     \* executeParallelBatch: const allResults
    chunk,          \* executeParallelBatch: the chunk being awaited
    promises,       \* the executeTask promises of the chunk being awaited
    returned,       \* what the public method resolved with
    \* ---- the callAI collaborator, as a recording stub ----
    callState,      \* per task id: idle | pending | the way its call ended
    calls,          \* per task id: number of times callAI was invoked for it
    dispatched,     \* per executeParallelBatch invocation: tasks given, windows started
    \* ---- PerformanceTracker ----
    metrics,        \* PerformanceTracker.metrics
    logs,           \* PerformanceTracker.logs
    storage,        \* localStorage: the values under the tracker's two keys
    now,            \* Date.now()
    ret,            \* the last tracker call and how it ended
    \* ---- the tracker's callers and the store, as recording stubs ----
    recordedMetrics, \* every sample handed to recordMetrics, as stored
    recordedLogs,    \* every entry handed to recordOptimization
    storeOutcome,    \* how the store took the last write
    \* ---- AEOOptimizer.optimizeForAnswerEngines: arguments and result ----
    content,        \* the HTML handed in
    primaryKeyword, \* the keyword handed in
    faqSection,     \* the FAQ entries handed in
    aeoResult,      \* the AEOOptimizationResult returned
    \* ---- InternalLinkingEngine.identifyTopicClusters in progress ----
    pages,          \* the corpus handed in
    clusterPc,      \* position of the call: idle | loop | done
    pageIndex,      \* the page the loop is at, counted from 0
    clusters,       \* const clusters, and the array returned
    processed,      \* const processed
    \* ---- InternalLinkingEngine: opportunities and injection passes ----
    linkContent,    \* the text handed to generateLinkOpportunities
    linkLimit,      \* the maxLinks handed to generateLinkOpportunities
    linkOpportunities, \* how generateLinkOpportunities ended, what it returned
    linked,         \* per injectContextualLinks call: its result, offsets used
    \* ---- EnhancedContentGenerator.generateWithOptimizations in progress ----
    contentItems,   \* `items`, the ContentItem[] of the component
    generated,      \* per item id: the payload callAI resolves with, if it does
    pipePc,         \* position of the call: idle | batch | map | completed | caught
    enhancedResults, \* results.map(...): the entries produced so far
    completed,      \* what onComplete was called with
    caught          \* what the catch block logged

schedVars == <<tasks, maxConcurrent, entry, pc, groups, results, chunks,
               allResults, chunk, promises, returned, callState, calls,
               dispatched>>

trackerVars == <<metrics, logs, storage, now, ret, recordedMetrics,
                 recordedLogs, storeOutcome>>

aeoVars == <<content, primaryKeyword, faqSection, aeoResult>>

clusterVars == <<pages, clusterPc, pageIndex, clusters, processed>>

linkVars == <<linkContent, linkLimit, linkOpportunities, linked>>

pipeVars == <<contentItems, generated, pipePc, enhancedResults, completed, caught>>

contentVars == <<aeoVars, clusterVars, linkVars, pipeVars>>

vars == <<schedVars, trackerVars, contentVars>>

(***************************************************************************)
(* Bounds of the model.                                                    *)
(***************************************************************************)
MaxTasks == 4            \* longest batch of mixed priorities
MaxUniformTasks == 5     \* longest batch of a single priority
MaxConcurrent == 3       \* largest concurrency limit
MaxFailures == 2         \* most callAI calls that fail in one batch

(***************************************************************************)
(* JavaScript helpers.                                                     *)
(***************************************************************************)
Min(a, b) == IF a < b THEN a ELSE b
Max(a, b) == IF a > b THEN a ELSE b

\* Array.prototype.slice(start, end) on a 1-based sequence: negative indices
\* count from the end, both are clamped to [0, length].
Slice(s, start, end) ==
    LET n    == Len(s)
        from == IF start < 0 THEN Max(n + start, 0) ELSE Min(start, n)
        to   == IF end < 0 THEN Max(n + end, 0) ELSE Min(end, n)
    IN  IF from >= to THEN <<>> ELSE SubSeq(s, from + 1, to)

\* Array.prototype.slice(start): to the end of the array.
SliceFrom(s, start) == Slice(s, start, Len(s))

\* a || b on strings: the empty (or missing) string is falsy.
OrElse(a, b) == IF a = "" THEN b ELSE a

Range(s) == {s[i] : i \in 1..Len(s)}

(***************************************************************************)
(* AITask and AIBatchResult.  promptKey, args and model are passed to the  *)
(* collaborator untouched and decide nothing in the engine; the            *)
(* collaborator's answer is nondeterministic.                              *)
(***************************************************************************)
Priorities == <<"high", "medium", "low">>

Null == <<"null">>
Absent == "<absent>"
Measured == "performance.now() - startTime"
Zero == "0"

AITask(i, p) == [id |-> i, priority |-> p]

\* Batches with unique identifiers: every mix of priorities, and batches
\* whose tasks all have one priority.
Batches ==
    UNION {{[i \in 1..n |-> AITask(i, f[i])] : f \in [1..n -> Range(Priorities)]}
           : n \in 0..MaxTasks}

UniformBatches ==
    UNION {{[i \in 1..n |-> AITask(i, p)] : p \in Range(Priorities)}
           : n \in 0..MaxUniformTasks}

(***************************************************************************)
(* The ways a callAI call can end:                                         *)
(*   ok      resolves with the generated content                           *)
(*   error   rejects with an Error carrying a message                      *)
(*   bare    rejects with a value whose .message is empty or undefined     *)
(*   nullish rejects with null/undefined, so reading .message throws       *)
(***************************************************************************)
Outcomes == {"ok", "error", "bare", "nullish"}
Failed == Outcomes \ {"ok"}

Content(task) == <<"content", task.id>>
MessageOf(outcome) == IF outcome = "error" THEN "backend failure" ELSE ""
TypeErrorMessage == "Cannot read properties of undefined (reading 'message')"

Pending == [status |-> "pending", value |-> Null, reason |-> ""]
Fulfilled(v) == [status |-> "fulfilled", value |-> v, reason |-> ""]
Rejected(msg) == [status |-> "rejected", value |-> Null, reason |-> msg]

\* executeTask(task, context) once its callAI call has ended with `outcome`:
\* the promise executeTask returned settles as computed here.
executeTask(task, outcome) ==
    IF outcome = "ok"
    THEN Fulfilled([id |-> task.id, success |-> TRUE, data |-> Content(task),
                    error |-> Absent, duration |-> Measured])
    ELSE IF outcome = "nullish"
    THEN Rejected(TypeErrorMessage)   \* error.message throws inside the catch
    ELSE Fulfilled([id |-> task.id, success |-> FALSE, data |-> Null,
                    error |-> OrElse(MessageOf(outcome), "AI call failed"),
                    duration |-> Measured])

\* Mutant: the 'low' priority is left out of the priorities list.
groupByPriorityNoLow(ts) ==
    LET filtered(p) == SelectSeq(ts, LAMBDA t : t.priority = p)
        entryOf(p) == IF Len(filtered(p)) > 0
                      THEN <<[priority |-> p, tasks |-> filtered(p)]>>
                      ELSE <<>>
    IN  entryOf("high") \o entryOf("medium")

\* Mutant: the priorities list is written ['low', 'medium', 'high'].
groupByPriorityReversed(ts) ==
    LET filtered(p) == SelectSeq(ts, LAMBDA t : t.priority = p)
        entryOf(p) == IF Len(filtered(p)) > 0
                      THEN <<[priority |-> p, tasks |-> filtered(p)]>>
                      ELSE <<>>
    IN  entryOf("low") \o entryOf("medium") \o entryOf("high")

\* groupByPriority(tasks): the Map's entries in insertion order.
groupByPriority(ts) ==
    LET filtered(p) == SelectSeq(ts, LAMBDA t : t.priority = p)
        entryOf(p) == IF Len(filtered(p)) > 0
                      THEN <<[priority |-> p, tasks |-> filtered(p)]>>
                      ELSE <<>>
    IN  entryOf(Priorities[1]) \o entryOf(Priorities[2]) \o entryOf(Priorities[3])

\* chunkTasks(tasks, chunkSize): the loop from index i on.
RECURSIVE chunkFrom(_, _, _)
chunkFrom(ts, i, chunkSize) ==
    IF i < Len(ts)
    THEN <<Slice(ts, i, i + chunkSize)>> \o chunkFrom(ts, i + chunkSize, chunkSize)
    ELSE <<>>

\* Mutant: slice(i, i + chunkSize + 1), neighbouring chunks overlap.
RECURSIVE chunkFromOverlap(_, _, _)
chunkFromOverlap(ts, i, chunkSize) ==
    IF i < Len(ts)
    THEN <<Slice(ts, i, i + chunkSize + 1)>>
         \o chunkFromOverlap(ts, i + chunkSize, chunkSize)
    ELSE <<>>

chunkTasksOverlap(ts, chunkSize) == chunkFromOverlap(ts, 0, chunkSize)

\* Mutant: i <= tasks.length, a trailing empty chunk when the length is a
\* multiple of chunkSize.
RECURSIVE chunkFromInclusive(_, _, _)
chunkFromInclusive(ts, i, chunkSize) ==
    IF i <= Len(ts)
    THEN <<Slice(ts, i, i + chunkSize)>>
         \o chunkFromInclusive(ts, i + chunkSize, chunkSize)
    ELSE <<>>

chunkTasksInclusive(ts, chunkSize) == chunkFromInclusive(ts, 0, chunkSize)

chunkTasks(ts, chunkSize) == chunkFrom(ts, 0, chunkSize)

\* Mutant: Promise.race, the await resumes once some promise has settled.
anySettled(ps) == ps = <<>> \/ \E i \in 1..Len(ps) : ps[i].status # "pending"

\* await Promise.allSettled(...): resumes once no promise is pending.
allSettled(ps) == \A i \in 1..Len(ps) : ps[i].status # "pending"

\* Mutant: Promise.all, the await throws when a promise was rejected.
awaitChunkAll(ps) ==
    IF \E i \in 1..Len(ps) : ps[i].status = "rejected" THEN "throw" ELSE "resume"

\* What the await of the chunk's promises does when it resumes:
\* Promise.allSettled never rejects.
awaitChunk(ps) == "resume"

\* chunkResults.map((result, index) => ...) for one entry.
processedResult(result, task) ==
    IF result.status = "fulfilled"
    THEN result.value
    ELSE [id |-> task.id, success |-> FALSE, data |-> Null,
          error |-> OrElse(result.reason, "Unknown error"), duration |-> Zero]

\* Mutant: allResults.unshift(...), the chunk's results in reverse.
processedResultsReversed(ps, ch) ==
    [i \in 1..Len(ch) |-> processedResult(ps[Len(ch) + 1 - i], ch[Len(ch) + 1 - i])]

processedResults(ps, ch) == [i \in 1..Len(ch) |-> processedResult(ps[i], ch[i])]

Ids(ts) == [i \in 1..Len(ts) |-> ts[i].id]

\* The index a chunkTasks loop stands at after `pushed` turns: i starts at 0
\* and every turn adds chunkSize.
loopIndex(pushed, chunkSize) == pushed * chunkSize

(***************************************************************************)
(* PerformanceTracker: samples, log entries and the store.                 *)
(***************************************************************************)
MAX_HISTORY == 100

MaxOverflow == 2         \* records made beyond MAX_HISTORY
MaxSamples == 11         \* longest window the trend is taken of
MaxEntries == 2          \* longest windows of the small tracker
MaxTime == 1             \* latest reading of the clock

None == <<>>
Some(x) == <<x>>

PerformanceMetrics(speed, quality, density, richness, aeo, ts) ==
    [optimizationSpeed |-> speed, contentQualityScore |-> quality,
     internalLinkDensity |-> density, semanticRichness |-> richness,
     aeoScore |-> aeo, timestamp |-> ts]

OptimizationLog(id, ts, after, dur) ==
    [id |-> id, url |-> "title", title |-> "title", timestamp |-> ts,
     beforeScore |-> 70, afterScore |-> after, improvements |-> <<>>,
     duration |-> dur]

\* The samples and entries callers hand in.  The k-th of a numbered run is
\* told from every other by its fields.
SerialSample(k) == PerformanceMetrics(k, k % 101, k % 7, k % 11, k % 13, k)
SerialLog(k) == OptimizationLog(k, k, k % 101, k)

\* Content-quality scores are sums of the weights 10, 15 and 20
\* (calculateContentQualityScore), so multiples of 5.
SampleInputs ==
    {PerformanceMetrics(120, 50, 10, 30, 40, 7),
     PerformanceMetrics(95, 55, 20, 45, 75, 9),
     PerformanceMetrics(210, 60, 25, 65, 80, 3)}

LogInputs == {OptimizationLog(1, 0, 50, 120), OptimizationLog(2, 1, 60, 95)}

\* JSON.stringify of a window.  The windows hold finite numbers and strings
\* only, which JSON text carries unchanged.
JSONstringify(window) == [json |-> window]

\* localStorage after construction: neither key is present.
EmptyStorage == [performanceMetrics |-> None, optimizationLogs |-> None]

StoreOutcomes == {"ok", "firstThrows", "secondThrows"}

\* Mutant: slice(0, MAX_HISTORY), the oldest entries are the ones kept.
evictNewest(window) ==
    IF Len(window) > MAX_HISTORY THEN Slice(window, 0, MAX_HISTORY) ELSE window

\* Lines 324-326 and 334-336: the window after its push.
evict(window) ==
    IF Len(window) > MAX_HISTORY THEN SliceFrom(window, -MAX_HISTORY) ELSE window

\* Mutant: only the metrics key is written.
saveToStorageMetricsOnly(store, ms, ls, st) ==
    [storage |-> IF st = "ok"
                 THEN [store EXCEPT !.performanceMetrics = Some(JSONstringify(ms))]
                 ELSE store,
     status |-> "returned"]

\* Mutant: no try/catch around the two setItem calls.
saveToStorageUncaught(store, ms, ls, st) ==
    [storage |-> IF st = "ok"
                 THEN [performanceMetrics |-> Some(JSONstringify(ms)),
                       optimizationLogs |-> Some(JSONstringify(ls))]
                 ELSE IF st = "secondThrows"
                 THEN [store EXCEPT !.performanceMetrics = Some(JSONstringify(ms))]
                 ELSE store,
     status |-> IF st = "ok" THEN "returned" ELSE "threw"]

\* saveToStorage() when the store takes the two setItem calls as `st`:
\* the store afterwards, and whether the exception leaves saveToStorage.
saveToStorage(store, ms, ls, st) ==
    [storage |-> IF st = "ok"
                 THEN [performanceMetrics |-> Some(JSONstringify(ms)),
                       optimizationLogs |-> Some(JSONstringify(ls))]
                 ELSE IF st = "secondThrows"
                 THEN [store EXCEPT !.performanceMetrics = Some(JSONstringify(ms))]
                 ELSE store,
     status |-> "returned"]

\* JSON.parse of what JSON.stringify wrote.
JSONparse(text) == text.json

\* Mutant: a key the store does not hold empties the window.
loadWindowOrEmpty(data, window) ==
    IF data # None THEN JSONparse(data[1]) ELSE <<>>

\* Lines 428-434: `if (data) { window = JSON.parse(data) }` for the value
\* getItem returned (None is null).
loadWindow(data, window) ==
    IF data # None THEN JSONparse(data[1]) ELSE window

RECURSIVE GCD(_, _)
GCD(a, b) == IF b = 0 THEN a ELSE GCD(b, a % b)

\* a / b for non-negative a and positive b, as the number it denotes.
Div(a, b) == [num |-> a \div GCD(a, b), den |-> b \div GCD(a, b)]

RECURSIVE SumOf(_, _)
SumOf(ms, field) ==
    IF ms = <<>> THEN 0 ELSE Head(ms)[field] + SumOf(Tail(ms), field)

\* Mutant: the sums are divided by the capacity of the window.
getAverageMetricsOfCapacity(ms, t) ==
    IF Len(ms) = 0 THEN None
    ELSE LET count == MAX_HISTORY IN
         Some([optimizationSpeed |-> Div(SumOf(ms, "optimizationSpeed"), count),
               contentQualityScore |-> Div(SumOf(ms, "contentQualityScore"), count),
               internalLinkDensity |-> Div(SumOf(ms, "internalLinkDensity"), count),
               semanticRichness |-> Div(SumOf(ms, "semanticRichness"), count),
               aeoScore |-> Div(SumOf(ms, "aeoScore"), count),
               timestamp |-> t])

\* getAverageMetrics() of a window at clock reading t.
getAverageMetricsOf(ms, t) ==
    IF Len(ms) = 0 THEN None
    ELSE LET count == Len(ms) IN
         Some([optimizationSpeed |-> Div(SumOf(ms, "optimizationSpeed"), count),
               contentQualityScore |-> Div(SumOf(ms, "contentQualityScore"), count),
               internalLinkDensity |-> Div(SumOf(ms, "internalLinkDensity"), count),
               semanticRichness |-> Div(SumOf(ms, "semanticRichness"), count),
               aeoScore |-> Div(SumOf(ms, "aeoScore"), count),
               timestamp |-> t])

\* Mutant: the trend waits for a full older group of five samples.
getPerformanceTrendOfFullOlder(ms) ==
    IF Len(ms) < 10 THEN "stable"
    ELSE LET recent    == SliceFrom(ms, -5)
             older     == Slice(ms, -10, -5)
             recentSum == SumOf(recent, "contentQualityScore")
             olderSum  == SumOf(older, "contentQualityScore")
             diff      == recentSum * Len(older) - olderSum * Len(recent)
             two       == 2 * Len(recent) * Len(older)
         IN  IF diff > two THEN "improving"
             ELSE IF diff < -two THEN "declining"
             ELSE "stable"

\* Mutant: recent = slice(-1) and older = slice(-5, -1), the last sample
\* against the four before it.
getPerformanceTrendOfLastOne(ms) ==
    IF Len(ms) < 5 THEN "stable"
    ELSE LET recent    == SliceFrom(ms, -1)
             older     == Slice(ms, -5, -1)
             recentSum == SumOf(recent, "contentQualityScore")
             olderSum  == SumOf(older, "contentQualityScore")
             diff      == recentSum * Len(older) - olderSum * Len(recent)
             two       == 2 * Len(recent) * Len(older)
         IN  IF Len(older) = 0 THEN "stable"
             ELSE IF diff > two THEN "improving"
             ELSE IF diff < -two THEN "declining"
             ELSE "stable"

\* Mutant: older = slice(0, -5), every sample before the last five.
getPerformanceTrendOfAllOlder(ms) ==
    IF Len(ms) < 5 THEN "stable"
    ELSE LET recent    == SliceFrom(ms, -5)
             older     == Slice(ms, 0, -5)
             recentSum == SumOf(recent, "contentQualityScore")
             olderSum  == SumOf(older, "contentQualityScore")
             diff      == recentSum * Len(older) - olderSum * Len(recent)
             two       == 2 * Len(recent) * Len(older)
         IN  IF Len(older) = 0 THEN "stable"
             ELSE IF diff > two THEN "improving"
             ELSE IF diff < -two THEN "declining"
             ELSE "stable"

\* getPerformanceTrend() of a window.  recentAvg - olderAvg > 2 is decided
\* on the sums.  The scores are multiples of 5, so the mean of five is an
\* integer and an exact difference of 2 needs the other mean to be an
\* integer too: floating point computes both exactly, and any other
\* difference is further from 2 than rounding can move it.
getPerformanceTrendOf(ms) ==
    IF Len(ms) < 5 THEN "stable"
    ELSE LET recent    == SliceFrom(ms, -5)
             older     == Slice(ms, -10, -5)
             recentSum == SumOf(recent, "contentQualityScore")
             olderSum  == SumOf(older, "contentQualityScore")
             \* (recentAvg - olderAvg) * recent.length * older.length
             diff      == recentSum * Len(older) - olderSum * Len(recent)
             two       == 2 * Len(recent) * Len(older)
         IN  IF Len(older) = 0 THEN "stable"
             ELSE IF diff > two THEN "improving"
             ELSE IF diff < -two THEN "declining"
             ELSE "stable"

\* The tracker after construction.
TrackerIdle ==
    /\ metrics = <<>>
    /\ logs = <<>>
    /\ storage = EmptyStorage
    /\ now = 0
    /\ ret = [op |-> "new", status |-> "returned", value |-> None]
    /\ recordedMetrics = <<>>
    /\ recordedLogs = <<>>
    /\ storeOutcome = "none"

\* Nothing has been handed to the optimizer.
AEOIdle ==
    /\ content = ""
    /\ primaryKeyword = ""
    /\ faqSection = <<>>
    /\ aeoResult = None

\* No corpus has been handed to the linking engine.
ClusterIdle ==
    /\ pages = <<>>
    /\ clusterPc = "idle"
    /\ pageIndex = 0
    /\ clusters = <<>>
    /\ processed = {}

\* No text has been handed to the linking engine.
LinkIdle ==
    /\ linkContent = ""
    /\ linkLimit = 15
    /\ linkOpportunities = None
    /\ linked = <<>>

\* The component has not been asked to generate.
PipeIdle ==
    /\ contentItems = <<>>
    /\ generated = <<>>
    /\ pipePc = "idle"
    /\ enhancedResults = <<>>
    /\ completed = None
    /\ caught = None

ContentIdle == AEOIdle /\ ClusterIdle /\ LinkIdle /\ PipeIdle

(***************************************************************************)
(* The engine after construction, with a batch about to be submitted.      *)
(***************************************************************************)
SchedIdle ==
    /\ groups = <<>>
    /\ results = <<>>
    /\ chunks = <<>>
    /\ allResults = <<>>
    /\ chunk = <<>>
    /\ promises = <<>>
    /\ returned = <<>>
    /\ dispatched = <<>>

InitEngine(batches) ==
    /\ tasks \in batches
    /\ maxConcurrent \in 1..MaxConcurrent
    /\ entry \in {"executeBatch", "executeParallelBatch"}
    /\ pc = "start"
    /\ callState = [i \in 1..Len(tasks) |-> "idle"]
    /\ calls = [i \in 1..Len(tasks) |-> 0]
    /\ SchedIdle

InitScheduler == InitEngine(Batches) /\ TrackerIdle /\ ContentIdle

InitWindows == InitEngine(UniformBatches) /\ TrackerIdle /\ ContentIdle

\* executeParallelBatch(tasks, context), lines 49-50: chunk and start the loop.
enterParallelBatch(ts) ==
    /\ chunks' = chunkTasks(ts, maxConcurrent)
    /\ allResults' = <<>>
    /\ dispatched' = Append(dispatched, [given |-> Ids(ts), windows |-> <<>>])
    /\ pc' = "nextChunk"

\* executeBatch(tasks, context), lines 34-35.
executeBatch ==
    /\ pc = "start"
    /\ entry = "executeBatch"
    /\ groups' = groupByPriority(tasks)
    /\ results' = <<>>
    /\ pc' = "nextGroup"
    /\ UNCHANGED <<contentVars, trackerVars, tasks, maxConcurrent, entry, chunks, allResults, chunk,
                   promises, returned, callState, calls, dispatched>>

\* executeBatch, lines 37-38: the next group goes to executeGroup, which is
\* executeParallelBatch.
executeGroup ==
    /\ pc = "nextGroup"
    /\ groups # <<>>
    /\ enterParallelBatch(Head(groups).tasks)
    /\ UNCHANGED <<contentVars, trackerVars, tasks, maxConcurrent, entry, groups, results, chunk,
                   promises, returned, callState, calls>>

\* executeBatch, line 42: every group done.
returnBatch ==
    /\ pc = "nextGroup"
    /\ groups = <<>>
    /\ returned' = results
    /\ pc' = "done"
    /\ UNCHANGED <<contentVars, trackerVars, tasks, maxConcurrent, entry, groups, results, chunks,
                   allResults, chunk, promises, callState, calls, dispatched>>

\* executeParallelBatch called directly.
executeParallelBatch ==
    /\ pc = "start"
    /\ entry = "executeParallelBatch"
    /\ enterParallelBatch(tasks)
    /\ UNCHANGED <<contentVars, trackerVars, tasks, maxConcurrent, entry, groups, results, chunk,
                   promises, returned, callState, calls>>

\* Lines 52-55: chunk.map(task => this.executeTask(task, context)) runs each
\* executeTask up to its await, so callAI is invoked for the whole chunk.
dispatchChunk ==
    /\ pc = "nextChunk"
    /\ chunks # <<>>
    /\ LET ch == Head(chunks) IN
        /\ chunk' = ch
        /\ chunks' = Tail(chunks)
        /\ promises' = [i \in 1..Len(ch) |-> Pending]
        /\ callState' = [i \in DOMAIN callState |->
                           IF i \in Range(Ids(ch)) THEN "pending" ELSE callState[i]]
        /\ calls' = [i \in DOMAIN calls |->
                       calls[i] + Cardinality({k \in 1..Len(ch) : ch[k].id = i})]
        /\ dispatched' = [dispatched EXCEPT ![Len(dispatched)].windows =
                                               Append(@, Ids(ch))]
    /\ pc' = "awaitChunk"
    /\ UNCHANGED <<contentVars, trackerVars, tasks, maxConcurrent, entry, groups, results, allResults,
                   returned>>

FailuresSoFar == Cardinality({i \in DOMAIN callState : callState[i] \in Failed})

\* The collaborator ends the call of the chunk's k-th task; the rest of
\* executeTask (lines 90-108) runs and its promise settles.
settleCall(k, outcome) ==
    /\ pc = "awaitChunk"
    /\ k \in 1..Len(chunk)
    /\ promises[k].status = "pending"
    /\ outcome \in Failed => FailuresSoFar < MaxFailures
    /\ promises' = [promises EXCEPT ![k] = executeTask(chunk[k], outcome)]
    /\ callState' = [callState EXCEPT ![chunk[k].id] = outcome]
    /\ UNCHANGED <<contentVars, trackerVars, tasks, maxConcurrent, entry, pc, groups, results, chunks,
                   allResults, chunk, returned, calls, dispatched>>

\* Lines 53-71: the await resumes, the settled results are mapped and pushed.
collectChunk ==
    /\ pc = "awaitChunk"
    /\ allSettled(promises)
    /\ IF awaitChunk(promises) = "resume"
       THEN /\ allResults' = allResults \o processedResults(promises, chunk)
            /\ pc' = "nextChunk"
       ELSE /\ allResults' = allResults
            /\ pc' = "threw"
    /\ chunk' = <<>>
    /\ promises' = <<>>
    /\ UNCHANGED <<contentVars, trackerVars, tasks, maxConcurrent, entry, groups, results, chunks,
                   returned, callState, calls, dispatched>>

\* Line 74: return allResults, to executeBatch (line 39) or to the caller.
returnParallelBatch ==
    /\ pc = "nextChunk"
    /\ chunks = <<>>
    /\ IF entry = "executeBatch"
       THEN /\ results' = results \o allResults
            /\ groups' = Tail(groups)
            /\ pc' = "nextGroup"
            /\ returned' = returned
       ELSE /\ returned' = allResults
            /\ pc' = "done"
            /\ UNCHANGED <<results, groups>>
    /\ UNCHANGED <<contentVars, trackerVars, tasks, maxConcurrent, entry, chunks, allResults, chunk,
                   promises, callState, calls, dispatched>>

NextScheduler ==
    \/ executeBatch
    \/ executeGroup
    \/ returnBatch
    \/ executeParallelBatch
    \/ dispatchChunk
    \/ \E k \in 1..MaxConcurrent, outcome \in Outcomes : settleCall(k, outcome)
    \/ collectChunk
    \/ returnParallelBatch

\* Batches of mixed priorities through either public method.
SpecScheduler == InitScheduler /\ [][NextScheduler]_vars

\* Longer batches of one priority through either public method.
SpecWindows == InitWindows /\ [][NextScheduler]_vars

(***************************************************************************)
(* PerformanceTracker's operations.                                        *)
(***************************************************************************)
\* No batch is submitted to the engine.
EngineIdle ==
    /\ tasks = <<>>
    /\ maxConcurrent = 5
    /\ entry = "none"
    /\ pc = "idle"
    /\ callState = <<>>
    /\ calls = <<>>
    /\ SchedIdle

InitTracker == TrackerIdle /\ EngineIdle /\ ContentIdle

\* recordMetrics(metrics) with the store taking the write as `st`.
recordMetrics(input, st) ==
    LET stamped == [input EXCEPT !.timestamp = now]
        window  == evict(Append(metrics, stamped))
        saved   == saveToStorage(storage, window, logs, st)
    IN  /\ metrics' = window
        /\ storage' = saved.storage
        /\ ret' = [op |-> "recordMetrics", status |-> saved.status, value |-> None]
        /\ recordedMetrics' = Append(recordedMetrics, stamped)
        /\ storeOutcome' = st
        /\ UNCHANGED <<contentVars, schedVars, logs, now, recordedLogs>>

\* recordOptimization(log) with the store taking the write as `st`.
recordOptimization(log, st) ==
    LET window == evict(Append(logs, log))
        saved  == saveToStorage(storage, metrics, window, st)
    IN  /\ logs' = window
        /\ storage' = saved.storage
        /\ ret' = [op |-> "recordOptimization", status |-> saved.status,
                   value |-> None]
        /\ recordedLogs' = Append(recordedLogs, log)
        /\ storeOutcome' = st
        /\ UNCHANGED <<contentVars, schedVars, metrics, now, recordedMetrics>>

\* getAverageMetrics()
getAverageMetrics ==
    /\ ret' = [op |-> "getAverageMetrics", status |-> "returned",
               value |-> getAverageMetricsOf(metrics, now)]
    /\ UNCHANGED <<contentVars, schedVars, metrics, logs, storage, now, recordedMetrics,
                   recordedLogs, storeOutcome>>

\* getPerformanceTrend()
getPerformanceTrend ==
    /\ ret' = [op |-> "getPerformanceTrend", status |-> "returned",
               value |-> Some(getPerformanceTrendOf(metrics))]
    /\ UNCHANGED <<contentVars, schedVars, metrics, logs, storage, now, recordedMetrics,
                   recordedLogs, storeOutcome>>

\* A millisecond passes between two calls.
tick ==
    /\ now < MaxTime
    /\ now' = now + 1
    /\ UNCHANGED <<contentVars, schedVars, metrics, logs, storage, ret, recordedMetrics,
                   recordedLogs, storeOutcome>>

\* ---- a numbered run of records past the capacity of the windows; the
\* ---- store takes every write and the clock stands still.
recordNextSample ==
    /\ Len(recordedMetrics) < MAX_HISTORY + MaxOverflow
    /\ recordMetrics(SerialSample(Len(recordedMetrics) + 1), "ok")

recordNextLog ==
    /\ Len(recordedLogs) < MAX_HISTORY + MaxOverflow
    /\ recordOptimization(SerialLog(Len(recordedLogs) + 1), "ok")

NextEviction ==
    \/ recordNextSample
    \/ recordNextLog

SpecEviction == InitTracker /\ [][NextEviction]_vars

\* ---- samples of either score, then the trend; the store takes every
\* ---- write and the clock stands still.
recordScoredSample ==
    /\ Len(recordedMetrics) < MaxSamples
    /\ \E input \in SampleInputs : recordMetrics(input, "ok")

NextTrend ==
    \/ recordScoredSample
    \/ getPerformanceTrend

SpecTrend == InitTracker /\ [][NextTrend]_vars

\* ---- a short life of the tracker with a store that may refuse a write
\* ---- and a clock that advances.
recordSample ==
    /\ Len(recordedMetrics) < MaxEntries
    /\ \E input \in SampleInputs, st \in StoreOutcomes : recordMetrics(input, st)

recordLog ==
    /\ Len(recordedLogs) < MaxEntries
    /\ \E log \in LogInputs, st \in StoreOutcomes : recordOptimization(log, st)

NextTracker ==
    \/ recordSample
    \/ recordLog
    \/ getAverageMetrics
    \/ getPerformanceTrend
    \/ tick

SpecTracker == InitTracker /\ [][NextTracker]_vars

\* loadFromStorage() with the store taking the two getItem calls as `st`.
\* Both reads come before either assignment, so a read that throws leaves
\* the windows alone; the catch block ends the call normally.
loadFromStorage(st) ==
    /\ metrics' = IF st = "ok"
                  THEN loadWindow(storage.performanceMetrics, metrics)
                  ELSE metrics
    /\ logs' = IF st = "ok"
               THEN loadWindow(storage.optimizationLogs, logs)
               ELSE logs
    /\ ret' = [op |-> "loadFromStorage", status |-> "returned", value |-> None]
    /\ storeOutcome' = st
    /\ UNCHANGED <<contentVars, schedVars, storage, now, recordedMetrics, recordedLogs>>

\* clear() with the store taking the two removeItem calls as `st`.  The
\* windows are reset first; nothing catches what removeItem throws.
clear(st) ==
    /\ metrics' = <<>>
    /\ logs' = <<>>
    /\ storage' = IF st = "ok" THEN EmptyStorage
                  ELSE IF st = "secondThrows"
                  THEN [storage EXCEPT !.performanceMetrics = None]
                  ELSE storage
    /\ ret' = [op |-> "clear",
               status |-> IF st = "ok" THEN "returned" ELSE "threw",
               value |-> None]
    /\ storeOutcome' = st
    /\ UNCHANGED <<contentVars, schedVars, now, recordedMetrics, recordedLogs>>

\* ---- a short life of the tracker with its windows recorded, cleared and
\* ---- read back from a store that may fail any call.
loadFromStore == \E st \in StoreOutcomes : loadFromStorage(st)

clearStore == \E st \in StoreOutcomes : clear(st)

NextStore ==
    \/ recordSample
    \/ recordLog
    \/ loadFromStore
    \/ clearStore

SpecStore == InitTracker /\ [][NextStore]_vars

\* ---- a tracker that records and clears over a store that takes every
\* ---- call, and a second tracker constructed later that loads from it.
\* The store may hold the windows of an earlier session.
StaleStorage ==
    [performanceMetrics |-> Some(JSONstringify(<<SerialSample(1)>>)),
     optimizationLogs |-> Some(JSONstringify(<<SerialLog(1), SerialLog(2)>>))]

InitMirror ==
    /\ metrics = <<>>
    /\ logs = <<>>
    /\ storage \in {EmptyStorage, StaleStorage}
    /\ now = 0
    /\ ret = [op |-> "new", status |-> "returned", value |-> None]
    /\ recordedMetrics = <<>>
    /\ recordedLogs = <<>>
    /\ storeOutcome = "none"
    /\ EngineIdle
    /\ ContentIdle

storeSample ==
    /\ Len(recordedMetrics) < MaxEntries
    /\ \E input \in SampleInputs : recordMetrics(input, "ok")

storeLog ==
    /\ Len(recordedLogs) < MaxEntries
    /\ \E log \in LogInputs : recordOptimization(log, "ok")

clearAll == clear("ok")

\* new PerformanceTracker() followed by its loadFromStorage(): the windows
\* are from now on those of the new tracker.
freshLoad ==
    /\ metrics' = loadWindow(storage.performanceMetrics, <<>>)
    /\ logs' = loadWindow(storage.optimizationLogs, <<>>)
    /\ ret' = [op |-> "loadFromStorage", status |-> "returned", value |-> None]
    /\ storeOutcome' = "ok"
    /\ UNCHANGED <<contentVars, schedVars, storage, now, recordedMetrics, recordedLogs>>

NextMirror ==
    \/ storeSample
    \/ storeLog
    \/ clearAll
    \/ freshLoad

SpecMirror == InitMirror /\ [][NextMirror]_vars

(***************************************************************************)
(* JavaScript strings.  Offsets are counted from 0 as in the source.       *)
(***************************************************************************)
UpperLetters == "ABCDEFGHIJKLMNOPQRSTUVWXYZ"
LowerLetters == "abcdefghijklmnopqrstuvwxyz"

\* s.charAt(i)
CharAt(s, i) == SubSeq(s, i + 1, i + 1)

LowerCaseOf ==
    [c \in {CharAt(UpperLetters, k) : k \in 0..(Len(UpperLetters) - 1)} |->
        CharAt(LowerLetters, CHOOSE k \in 0..(Len(UpperLetters) - 1) :
                                 CharAt(UpperLetters, k) = c)]

LowerCase(c) == IF c \in DOMAIN LowerCaseOf THEN LowerCaseOf[c] ELSE c

\* s.substring(lo, hi).toLowerCase()
RECURSIVE LowerBetween(_, _, _)
LowerBetween(s, lo, hi) ==
    IF hi <= lo THEN ""
    ELSE IF hi = lo + 1 THEN LowerCase(CharAt(s, lo))
    ELSE LET mid == (lo + hi) \div 2
         IN  LowerBetween(s, lo, mid) \o LowerBetween(s, mid, hi)

\* String.prototype.toLowerCase
toLowerCase(s) == LowerBetween(s, 0, Len(s))

\* c.repeat(n)
RECURSIVE Repeat(_, _)
Repeat(c, n) ==
    IF n <= 0 THEN ""
    ELSE IF n = 1 THEN c
    ELSE Repeat(c, n \div 2) \o Repeat(c, n - n \div 2)

Whitespace == {" ", "\n", "\t", "\r"}
LineTerminators == {"\n", "\r"}
Digits == {"0", "1", "2", "3", "4", "5", "6", "7", "8", "9"}

\* s.startsWith(pat, i)
StartsAt(s, pat, i) ==
    /\ i >= 0
    /\ i + Len(pat) <= Len(s)
    /\ pat # "" => CharAt(s, i) = CharAt(pat, 0)
    /\ SubSeq(s, i + 1, i + Len(pat)) = pat

MinOf(S) == CHOOSE x \in S : \A y \in S : x <= y
MaxOf(S) == CHOOSE x \in S : \A y \in S : y <= x

\* s.indexOf(pat, from) for a non-empty pat
IndexOf(s, pat, from) ==
    LET n    == Len(pat)
        hits == {i \in Max(from, 0)..(Len(s) - n) : SubSeq(s, i + 1, i + n) = pat}
    IN  IF hits = {} THEN -1 ELSE MinOf(hits)

\* s.includes(pat)
Includes(s, pat) == IndexOf(s, pat, 0) # -1

\* s.substring(start, end)
Substring(s, start, end) ==
    LET lo == Max(0, Min(Min(start, end), Len(s)))
        hi == Max(0, Min(Max(start, end), Len(s)))
    IN  SubSeq(s, lo + 1, hi)

\* s.substring(start)
SubstringFrom(s, start) == Substring(s, start, Len(s))

\* s.trim()
Trim(s) ==
    LET inked == {i \in 0..(Len(s) - 1) : CharAt(s, i) \notin Whitespace}
    IN  IF inked = {} THEN "" ELSE Substring(s, MinOf(inked), MaxOf(inked) + 1)

\* s.split(sep) for a non-empty sep, from the offset the last piece ended at
RECURSIVE SplitFrom(_, _, _)
SplitFrom(s, sep, from) ==
    LET i == IndexOf(s, sep, from)
    IN  IF i = -1 THEN <<SubstringFrom(s, from)>>
        ELSE <<Substring(s, from, i)>> \o SplitFrom(s, sep, i + Len(sep))

Split(s, sep) == SplitFrom(s, sep, 0)

\* parts.join('')
RECURSIVE Join(_)
Join(parts) == IF parts = <<>> THEN "" ELSE Head(parts) \o Join(Tail(parts))

\* s.replace(/<[^>]+>/g, ''): a match opens at a "<" that is followed by at
\* least one character other than ">" and then, somewhere, by a ">"; it
\* closes at the first ">" after it.
RECURSIVE StripTagsFrom(_, _)
StripTagsFrom(s, from) ==
    LET opens == {i \in from..(Len(s) - 3) :
                     CharAt(s, i) = "<" /\ CharAt(s, i + 1) # ">"}
        open  == MinOf(opens)
        close == IF opens = {} THEN -1 ELSE IndexOf(s, ">", open + 2)
    IN  IF close = -1 THEN SubstringFrom(s, from)
        ELSE Substring(s, from, open) \o StripTagsFrom(s, close + 1)

StripTags(s) == StripTagsFrom(s, 0)

(***************************************************************************)
(* AEOOptimizer (src/aeo-optimizer.ts).                                    *)
(***************************************************************************)
AEOSnippet(type, text, score, optimization) ==
    [type |-> type, content |-> text, score |-> score,
     optimization |-> optimization]

\* /^(.*?is|are|means|refers to|can be defined as)/i.test(paragraph): "is"
\* anywhere on the first line, or one of the other four at the very start.
hasDefinitionPattern(paragraph) ==
    LET lower     == toLowerCase(paragraph)
        breaks    == {i \in 0..(Len(lower) - 1) : CharAt(lower, i) \in LineTerminators}
        firstLine == IF breaks = {} THEN lower ELSE Substring(lower, 0, MinOf(breaks))
    IN  \/ Includes(firstLine, "is")
        \/ StartsAt(lower, "are", 0)
        \/ StartsAt(lower, "means", 0)
        \/ StartsAt(lower, "refers to", 0)
        \/ StartsAt(lower, "can be defined as", 0)

\* /\d+/.test(paragraph)
hasNumbersOrData(paragraph) ==
    \E i \in 0..(Len(paragraph) - 1) : CharAt(paragraph, i) \in Digits

\* The sum scoreParagraphForAEO clamps.
paragraphPoints(paragraph, keyword) ==
    LET lower == toLowerCase(paragraph)
        kw    == toLowerCase(keyword)
    IN  50
        + (IF Len(paragraph) >= 40 /\ Len(paragraph) <= 160 THEN 20
           ELSE IF Len(paragraph) > 160 /\ Len(paragraph) <= 300 THEN 10
           ELSE 0)
        + (IF Includes(lower, kw) THEN 15 ELSE 0)
        + (IF StartsAt(lower, kw, 0) THEN 10 ELSE 0)
        + (IF hasDefinitionPattern(paragraph) THEN 15 ELSE 0)
        + (IF hasNumbersOrData(paragraph) THEN 5 ELSE 0)

\* Mutant: the sum is returned as it is.
scoreParagraphForAEOUnclamped(paragraph, keyword) ==
    paragraphPoints(paragraph, keyword)

scoreParagraphForAEO(paragraph, keyword) ==
    Min(paragraphPoints(paragraph, keyword), 100)

\* content.split('</p>').map(p => p.trim()).filter(p => p.length > 0), each
\* piece then stripped of its tags.
cleanParagraphs(text) ==
    LET pieces  == Split(text, "</p>")
        trimmed == [i \in 1..Len(pieces) |-> Trim(pieces[i])]
        kept    == SelectSeq(trimmed, LAMBDA p : Len(p) > 0)
    IN  [i \in 1..Len(kept) |-> StripTags(kept[i])]

\* Lines 64-71: the paragraphs that pass both tests.
passingParagraphs(paras, keyword) ==
    {i \in 1..Len(paras) :
        /\ Len(paras[i]) >= 40
        /\ Len(paras[i]) <= 300
        /\ Includes(toLowerCase(paras[i]), toLowerCase(keyword))
        /\ scoreParagraphForAEO(paras[i], keyword) >= 70}

\* Lines 72-77: the snippet of a paragraph.
directAnswerOf(para, keyword) ==
    AEOSnippet("paragraph", para, scoreParagraphForAEO(para, keyword),
               "Direct answer optimized for AI Overview")

\* Mutant: the last paragraph that passes is the one returned.
lastAnswerAmong(paras, passes, keyword) ==
    IF passes = {} THEN None ELSE Some(directAnswerOf(paras[MaxOf(passes)], keyword))

createDirectAnswerLast(text, keyword) ==
    LET paras == cleanParagraphs(text)
    IN  lastAnswerAmong(paras, passingParagraphs(paras, keyword), keyword)

\* Lines 61-82: the loop returns at the first paragraph that passes both
\* tests, and null when it runs out.
firstAnswerAmong(paras, passes, keyword) ==
    IF passes = {} THEN None ELSE Some(directAnswerOf(paras[MinOf(passes)], keyword))

createDirectAnswer(text, keyword) ==
    LET paras == cleanParagraphs(text)
    IN  firstAnswerAmong(paras, passingParagraphs(paras, keyword), keyword)

\* The first match of /<(ul|ol)[^>]*>[\s\S]*?<\/(ul|ol)>/i, or of the same
\* pattern for table: from the first opener, over its first ">", to the
\* first closer after it.  `lower` is the text in lower case.
firstBlock(lower, openers, closers) ==
    LET starts == {IndexOf(lower, o, 0) : o \in openers} \ {-1}
    IN  IF starts = {} THEN None
        ELSE LET start  == MinOf(starts)
                 opener == CHOOSE o \in openers : StartsAt(lower, o, start)
                 gt     == IndexOf(lower, ">", start + Len(opener))
                 ends   == IF gt = -1 THEN {}
                           ELSE {[at |-> IndexOf(lower, c, gt + 1), len |-> Len(c)] :
                                    c \in closers}
                 found  == {e \in ends : e.at # -1}
             IN  IF found = {} THEN None
                 ELSE LET end == CHOOSE e \in found : \A f \in found : e.at <= f.at
                      IN  Some([start |-> start, end |-> end.at + end.len])

\* (list.match(/<li[^>]*>.*?<\/li>/gi) || []).length: an item runs from
\* "<li" over its first ">" to the first "</li>", all on one line.
RECURSIVE countItems(_, _)
countItems(lower, from) ==
    LET start == IndexOf(lower, "<li", from)
        gt    == IF start = -1 THEN -1 ELSE IndexOf(lower, ">", start + 3)
        end   == IF gt = -1 THEN -1 ELSE IndexOf(lower, "</li>", gt + 1)
    IN  IF end = -1 THEN 0
        ELSE IF \E i \in (gt + 1)..(end - 1) : CharAt(lower, i) \in LineTerminators
        THEN countItems(lower, start + 1)
        ELSE 1 + countItems(lower, end + 5)

\* (table.match(/<tr[^>]*>/gi) || []).length
RECURSIVE countRows(_, _)
countRows(lower, from) ==
    LET start == IndexOf(lower, "<tr", from)
        gt    == IF start = -1 THEN -1 ELSE IndexOf(lower, ">", start + 3)
    IN  IF gt = -1 THEN 0 ELSE 1 + countRows(lower, gt + 1)

createListSnippet(text) ==
    LET m == firstBlock(toLowerCase(text), {"<ul", "<ol"}, {"</ul>", "</ol>"})
    IN  IF m = None THEN None
        ELSE LET firstList == Substring(text, m[1].start, m[1].end)
                 items     == countItems(toLowerCase(firstList), 0)
             IN  IF items >= 3 /\ items <= 10
                 THEN Some(AEOSnippet("list", firstList, 85,
                                      "List format optimized for featured snippet"))
                 ELSE None

createTableSnippet(text) ==
    LET m == firstBlock(toLowerCase(text), {"<table"}, {"</table>"})
    IN  IF m = None THEN None
        ELSE LET firstTable == Substring(text, m[1].start, m[1].end)
                 rows       == countRows(toLowerCase(firstTable), 0)
             IN  IF rows >= 3 /\ rows <= 8
                 THEN Some(AEOSnippet("table", firstTable, 90,
                                      "Table format optimized for comparison snippet"))
                 ELSE None

createFAQSnippet(faqs) ==
    LET shown == Slice(faqs, 0, 5)
    IN  AEOSnippet("faq",
                   Join([i \in 1..Len(shown) |->
                       "\n"
                       \o "          <div itemscope itemprop=\"mainEntity\" itemtype=\"htt"
                       \o "ps://schema.org/Question\">\n"
                       \o "            <h3 itemprop=\"name\">"
                       \o shown[i].question
                       \o "</h3>\n"
                       \o "            <div itemscope itemprop=\"acceptedAnswer\" itemtyp"
                       \o "e=\"https://schema.org/Answer\">\n"
                       \o "              <div itemprop=\"text\">"
                       \o shown[i].answer
                       \o "</div>\n"
                       \o "            </div>\n"
                       \o "          </div>\n"
                       \o "        "]),
                   95, "FAQ schema markup for voice search and AI overviews")

\* The first match of /<p[^>]*>.*?<\/p>/i at or after `from`: "<p", its
\* first ">", then the first "</p>", all on one line.
RECURSIVE firstParagraphMatch(_, _)
firstParagraphMatch(lower, from) ==
    LET start == IndexOf(lower, "<p", from)
        gt    == IF start = -1 THEN -1 ELSE IndexOf(lower, ">", start + 2)
        end   == IF gt = -1 THEN -1 ELSE IndexOf(lower, "</p>", gt + 1)
    IN  IF end = -1 THEN None
        ELSE IF \E i \in (gt + 1)..(end - 1) : CharAt(lower, i) \in LineTerminators
        THEN firstParagraphMatch(lower, start + 1)
        ELSE Some([start |-> start, end |-> end + 4])

\* injectDirectAnswer: content.replace(match, box + match), the first
\* occurrence of the matched text.
injectDirectAnswer(text, answer) ==
    LET m == firstParagraphMatch(toLowerCase(text), 0)
    IN  IF m = None THEN text
        ELSE LET matched == Substring(text, m[1].start, m[1].end)
                 at      == IndexOf(text, matched, 0)
                 box     ==
                     "\n"
                     \o "        <div class=\"direct-answer\" style=\"background: #f0f9f"
                     \o "f; padding: 1.5rem; border-left: 4px solid #3b82f6; margin-b"
                     \o "ottom: 2rem; border-radius: 8px;\">\n"
                     \o "          <h3 style=\"margin-top: 0; color: #1e40af; font-siz"
                     \o "e: 1.125rem;\">Quick Answer</h3>\n"
                     \o "          <p style=\"margin-bottom: 0; font-size: 1rem; line-"
                     \o "height: 1.6;\">"
                     \o answer.content
                     \o "</p>\n"
                     \o "        </div>\n"
                     \o "      "
             IN  Substring(text, 0, at) \o box \o SubstringFrom(text, at)

enhanceFAQMarkup(text, faqs) ==
    LET items == Join([i \in 1..Len(faqs) |->
                     "\n"
                     \o "            <div itemscope itemprop=\"mainEntity\" itemtype=\"h"
                     \o "ttps://schema.org/Question\" style=\"margin-bottom: 1.5rem;\">\n"
                     \o "              <h3 itemprop=\"name\" style=\"color: #1e40af; fon"
                     \o "t-size: 1.125rem; margin-bottom: 0.5rem;\">"
                     \o faqs[i].question
                     \o "</h3>\n"
                     \o "              <div itemscope itemprop=\"acceptedAnswer\" itemt"
                     \o "ype=\"https://schema.org/Answer\">\n"
                     \o "                <div itemprop=\"text\" style=\"color: #4b5563; "
                     \o "line-height: 1.6;\">"
                     \o faqs[i].answer
                     \o "</div>\n"
                     \o "              </div>\n"
                     \o "            </div>\n"
                     \o "          "])
        faqHtml ==
            "\n"
            \o "      <div itemscope itemtype=\"https://schema.org/FAQPage\" s"
            \o "tyle=\"margin-top: 3rem;\">\n"
            \o "        <h2>Frequently Asked Questions</h2>\n"
            \o "        "
            \o items
            \o "\n"
            \o "      </div>\n"
            \o "    "
    IN  text \o faqHtml

Types(snippets) == {snippets[i].type : i \in 1..Len(snippets)}

bonusOf(snippets) ==
    (IF "paragraph" \in Types(snippets) THEN 10 ELSE 0)
    + (IF "list" \in Types(snippets) THEN 10 ELSE 0)
    + (IF "table" \in Types(snippets) THEN 10 ELSE 0)
    + (IF "faq" \in Types(snippets) THEN 15 ELSE 0)

\* Mutant: the mean of the snippet scores, no bonus added.
calculateAEOScoreNoBonus(snippets) ==
    IF Len(snippets) = 0 THEN Div(0, 1)
    ELSE Div(SumOf(snippets, "score"), Len(snippets))

\* Mutant: the result is not clamped.
calculateAEOScoreUnclamped(snippets) ==
    IF Len(snippets) = 0 THEN Div(0, 1)
    ELSE LET totalScore == SumOf(snippets, "score")
             count      == Len(snippets)
         IN  Div(totalScore + bonusOf(snippets) * count, count)

\* calculateAEOScore: Math.min(avgScore + bonus, 100), as the number it
\* denotes.  The snippet scores are integers, so the division is the only
\* rounding: one snippet divides exactly, and two or more score 75 or more
\* each with a bonus of 20 or more, which is over 100 however it rounds.
calculateAEOScore(snippets) ==
    IF Len(snippets) = 0 THEN Div(0, 1)
    ELSE LET totalScore == SumOf(snippets, "score")
             count      == Len(snippets)
             scaled     == totalScore + bonusOf(snippets) * count
         IN  IF scaled >= 100 * count THEN Div(100, 1) ELSE Div(scaled, count)

generateRecommendations(snippets, score) ==
    (IF "paragraph" \notin Types(snippets)
     THEN <<"Add a concise direct answer (40-160 characters) at the beginning of the content">>
     ELSE <<>>)
    \o (IF "list" \notin Types(snippets)
        THEN <<"Include a bulleted or numbered list for better snippet capture">>
        ELSE <<>>)
    \o (IF "table" \notin Types(snippets)
        THEN <<"Consider adding a comparison table for structured data presentation">>
        ELSE <<>>)
    \o (IF "faq" \notin Types(snippets)
        THEN <<"Add FAQ section with schema markup for voice search optimization">>
        ELSE <<>>)
    \o (IF score.num < 70 * score.den
        THEN <<"Improve content structure with clear headers and direct answers to common questions">>
        ELSE <<>>)

\* Lines 47-55: the result, once the snippets and the rewritten content
\* are known.
optimizationResult(snippets, overallScore, optimizedContent) ==
    [snippets |-> snippets,
     overallScore |-> overallScore,
     recommendations |-> generateRecommendations(snippets, overallScore),
     optimizedContent |-> optimizedContent]

\* Lines 22-45: the snippets in the order they are pushed, and the content
\* with the answer box and the FAQ markup.
optimizeWith(text, faqs, directAnswer, listSnippet, tableSnippet) ==
    LET hasFaq   == Len(faqs) > 0
        snippets == directAnswer \o listSnippet \o tableSnippet
                    \o (IF hasFaq THEN <<createFAQSnippet(faqs)>> ELSE <<>>)
        boxed    == IF directAnswer # None
                    THEN injectDirectAnswer(text, directAnswer[1])
                    ELSE text
    IN  optimizationResult(snippets, calculateAEOScore(snippets),
                           IF hasFaq THEN enhanceFAQMarkup(boxed, faqs) ELSE boxed)

\* optimizeForAnswerEngines(content, primaryKeyword, faqSection)
optimizeForAnswerEnginesOf(text, keyword, faqs) ==
    optimizeWith(text, faqs, createDirectAnswer(text, keyword),
                 createListSnippet(text), createTableSnippet(text))

optimizeForAnswerEngines ==
    /\ aeoResult = None
    /\ aeoResult' = Some(optimizeForAnswerEnginesOf(content, primaryKeyword, faqSection))
    /\ UNCHANGED <<schedVars, trackerVars, clusterVars, linkVars, pipeVars, content,
                   primaryKeyword, faqSection>>

\* ---- the documents handed to the optimizer.
MaxParagraphs == 2       \* most paragraphs of a document whose answer is sought

\* <p>head, then filler up to n characters of text</p>
ParagraphOf(head, n) ==
    "<p>" \o head.html \o Repeat("x", n - head.len) \o "</p>\n"

SeoIs == [html |-> "<strong>SEO</strong> is ", len |-> 7]
GoodSeo == [html |-> "Good seo helps 7 ", len |-> 17]
OurSeo == [html |-> "Our <em>seo</em> guide ", len |-> 14]
MeansALot == [html |-> "Means a lot ", len |-> 12]

ParagraphSources ==
    {ParagraphOf(SeoIs, 50), ParagraphOf(SeoIs, 160),
     ParagraphOf(GoodSeo, 161), ParagraphOf(GoodSeo, 300),
     ParagraphOf(OurSeo, 39), ParagraphOf(OurSeo, 40), ParagraphOf(OurSeo, 301),
     ParagraphOf(MeansALot, 160)}

Keywords == {"seo", "Good SEO"}

ListOf(n) == IF n = 0 THEN "" ELSE "<ul>\n" \o Repeat("<li>tip</li>\n", n) \o "</ul>\n"
TableOf(n) ==
    IF n = 0 THEN ""
    ELSE "<table>" \o Repeat("<tr><td>a</td></tr>", n) \o "</table>\n"

Faq(k) == [question |-> "What is seo?", answer |-> "Answer " \o CharAt("123456", k - 1)]
FaqOf(n) == [k \in 1..n |-> Faq(k)]

\* Documents of a few paragraphs.
AnswerDocuments ==
    UNION {{Join(ps) : ps \in [1..n -> ParagraphSources]} : n \in 0..MaxParagraphs}

\* Documents of at most one paragraph, a list and a table, with list and
\* table sizes on either side of the accepted ranges.
SnippetDocuments ==
    {p \o ListOf(items) \o TableOf(rows) :
        p \in {"", ParagraphOf(SeoIs, 50), ParagraphOf(OurSeo, 300),
               ParagraphOf(MeansALot, 160)},
        items \in {0, 2, 3, 10, 11},
        rows \in {0, 2, 3, 8, 9}}

InitAEO ==
    /\ \/ /\ content \in AnswerDocuments
          /\ primaryKeyword \in Keywords
          /\ faqSection = <<>>
       \/ /\ content \in SnippetDocuments
          /\ primaryKeyword = "seo"
          /\ faqSection \in {FaqOf(0), FaqOf(1), FaqOf(6)}
    /\ aeoResult = None
    /\ ClusterIdle
    /\ LinkIdle
    /\ PipeIdle
    /\ TrackerIdle
    /\ EngineIdle

NextAEO == optimizeForAnswerEngines

SpecAEO == InitAEO /\ [][NextAEO]_vars

(***************************************************************************)
(* InternalLinkingEngine (src/unnamed/part_001, lines 20-289): clusters.   *)
(***************************************************************************)
MaxPages == 4            \* most pages of a corpus

\* array.sort((a, b) => key(b) - key(a)): stable, greatest key first.
\* Greater(x, y) is key(x) > key(y).
SortDescending(seq, Greater(_, _)) ==
    LET Before(j, i) == Greater(seq[j], seq[i])
                        \/ (~Greater(seq[i], seq[j]) /\ j < i)
        rank(i)      == Cardinality({j \in 1..Len(seq) : Before(j, i)})
    IN  [k \in 1..Len(seq) |-> seq[CHOOSE i \in 1..Len(seq) : rank(i) = k - 1]]

\* s.split(/\s+/), from the offset the last separator ended at
RECURSIVE SplitWordsFrom(_, _)
SplitWordsFrom(s, from) ==
    LET spaces == {i \in from..(Len(s) - 1) : CharAt(s, i) \in Whitespace}
        first  == MinOf(spaces)
        inked  == {i \in first..(Len(s) - 1) : CharAt(s, i) \notin Whitespace}
    IN  IF spaces = {} THEN <<SubstringFrom(s, from)>>
        ELSE <<Substring(s, from, first)>>
             \o SplitWordsFrom(s, IF inked = {} THEN Len(s) ELSE MinOf(inked))

stopWords ==
    {"the", "a", "an", "and", "or", "but", "in", "on", "at", "to", "for", "of",
     "with", "by"}

extractKeywords(title) ==
    SelectSeq(SplitWordsFrom(toLowerCase(title), 0),
              LAMBDA w : w \notin stopWords /\ Len(w) > 3)

\* a.filter(k => b.includes(k)).length
overlapOf(a, b) == Len(SelectSeq(a, LAMBDA k : k \in Range(b)))

\* findRelatedPages(page, allPages): every other page of the corpus that
\* shares a keyword, whether or not a cluster has claimed it.
findRelatedPages(page, allPages) ==
    LET pageKeywords == extractKeywords(page.title)
        scored  == [i \in 1..Len(allPages) |->
                       [page |-> allPages[i],
                        score |-> overlapOf(pageKeywords,
                                            extractKeywords(allPages[i].title))]]
        related == SelectSeq(scored, LAMBDA r : r.page.id # page.id /\ r.score > 0)
        ranked  == Slice(SortDescending(related, LAMBDA a, b : a.score > b.score), 0, 8)
    IN  [i \in 1..Len(ranked) |-> ranked[i].page]

\* (cluster.length / Math.max(pillar.wordCount || 1000, 1000)) * 100; a
\* page without a word count carries 0.
calculateClusterLinkDensity(pillar, cluster) ==
    Div(Len(cluster) * 100,
        Max(IF pillar.wordCount = 0 THEN 1000 ELSE pillar.wordCount, 1000))

RECURSIVE totalOverlapOf(_, _)
totalOverlapOf(pillarKeywords, cluster) ==
    IF cluster = <<>> THEN 0
    ELSE overlapOf(pillarKeywords, extractKeywords(Head(cluster).title))
         + totalOverlapOf(pillarKeywords, Tail(cluster))

\* (totalOverlap / cluster.length) * 20
calculateTopicRelevance(pillar, cluster) ==
    Div(totalOverlapOf(extractKeywords(pillar.title), cluster) * 20, Len(cluster))

\* a > b for two fractions
GreaterThan(a, b) == a.num * b.den > b.num * a.den

\* ---- the corpora handed to identifyTopicClusters: pages with unique
\* ---- identifiers and these titles.
SitemapPage(i, t) ==
    [id |-> i, title |-> t.title, slug |-> t.slug, wordCount |-> t.wordCount]

CorpusTitles ==
    {[title |-> "Cycling Watches", slug |-> "cycling-watches", wordCount |-> 2500],
     [title |-> "Cycling for Running", slug |-> "cycling-for-running", wordCount |-> 0],
     [title |-> "Watches with Shoes", slug |-> "watches-with-shoes", wordCount |-> 800],
     [title |-> "Running Shoes", slug |-> "running-shoes", wordCount |-> 1200],
     [title |-> "Best Running Shoes Review Guide Tips 2024",
      slug |-> "best-running-shoes", wordCount |-> 3000]}

Corpora ==
    UNION {{[i \in 1..n |-> SitemapPage(i, ts[i])] : ts \in [1..n -> CorpusTitles]} :
              n \in 0..MaxPages}

InitClusters ==
    /\ pages \in Corpora
    /\ clusterPc = "loop"
    /\ pageIndex = 0
    /\ clusters = <<>>
    /\ processed = {}
    /\ AEOIdle
    /\ LinkIdle
    /\ PipeIdle
    /\ TrackerIdle
    /\ EngineIdle

\* One turn of `for (const page of pages)`, lines 67-83.
visitPage ==
    /\ clusterPc = "loop"
    /\ pageIndex < Len(pages)
    /\ LET page         == pages[pageIndex + 1]
           relatedPages == findRelatedPages(page, pages)
       IN  IF page.id \notin processed /\ Len(relatedPages) >= 2
           THEN /\ clusters' = Append(clusters,
                       [pillarPage |-> page,
                        clusterPages |-> relatedPages,
                        linkDensity |-> calculateClusterLinkDensity(page, relatedPages),
                        topicRelevance |-> calculateTopicRelevance(page, relatedPages)])
                /\ processed' = processed \cup {page.id}
                                \cup {relatedPages[i].id : i \in 1..Len(relatedPages)}
           ELSE UNCHANGED <<clusters, processed>>
    /\ pageIndex' = pageIndex + 1
    /\ UNCHANGED <<schedVars, trackerVars, aeoVars, linkVars, pipeVars, pages, clusterPc>>

\* Line 85: the clusters, sorted, are returned.
returnClusters ==
    /\ clusterPc = "loop"
    /\ pageIndex = Len(pages)
    /\ clusters' = SortDescending(clusters,
                      LAMBDA a, b : GreaterThan(a.topicRelevance, b.topicRelevance))
    /\ clusterPc' = "done"
    /\ UNCHANGED <<schedVars, trackerVars, aeoVars, linkVars, pipeVars, pages, pageIndex,
                   processed>>

NextClusters ==
    \/ visitPage
    \/ returnClusters

SpecClusters == InitClusters /\ [][NextClusters]_vars

(***************************************************************************)
(* InternalLinkingEngine: link opportunities and their injection.          *)
(***************************************************************************)
SentenceEnds == {".", "!", "?"}

\* arrays.flat()
RECURSIVE Flatten(_)
Flatten(seqs) == IF seqs = <<>> THEN <<>> ELSE Head(seqs) \o Flatten(Tail(seqs))

\* extractSentences: the matches of /[^.!?]+[.!?]+/g from `from` on.  A
\* match is a longest run of other characters and the run of ".", "!" and
\* "?" that follows it; text after the last such run matches nothing.
RECURSIVE extractSentencesFrom(_, _)
extractSentencesFrom(text, from) ==
    LET starts == {i \in from..(Len(text) - 1) : CharAt(text, i) \notin SentenceEnds}
        start  == MinOf(starts)
        marks  == {i \in start..(Len(text) - 1) : CharAt(text, i) \in SentenceEnds}
        mark   == MinOf(marks)
        rest   == {i \in mark..(Len(text) - 1) : CharAt(text, i) \notin SentenceEnds}
        end    == IF rest = {} THEN Len(text) ELSE MinOf(rest)
    IN  IF starts = {} \/ marks = {} THEN <<>>
        ELSE <<[text |-> Substring(text, start, end), start |-> start, end |-> end]>>
             \o extractSentencesFrom(text, end)

extractSentences(text) == extractSentencesFrom(text, 0)

\* findKeywordPositions, from `index` on; the keyword is not empty.
RECURSIVE findKeywordPositionsFrom(_, _, _)
findKeywordPositionsFrom(text, keyword, index) ==
    LET at == IndexOf(text, toLowerCase(keyword), index)
    IN  IF at = -1 THEN <<>>
        ELSE <<at>> \o findKeywordPositionsFrom(text, keyword, at + Len(keyword))

findKeywordPositions(text, keyword) == findKeywordPositionsFrom(text, keyword, 0)

findSentenceAtPosition(sentences, position) ==
    LET holding == {i \in 1..Len(sentences) :
                       position >= sentences[i].start /\ position <= sentences[i].end}
    IN  IF holding = {} THEN None ELSE Some(sentences[MinOf(holding)].text)

hasLinkNearby(text, position, range) ==
    LET before == Substring(text, Max(0, position - range), position)
        after  == Substring(text, position, Min(Len(text), position + range))
    IN  Includes(before, "<a ") \/ Includes(after, "<a ")

\* new RegExp(keyword, 'g') for the keywords of the model: letters, digits
\* and hyphens stand for themselves, and "++" is a SyntaxError (nothing to
\* repeat).
isValidRegExp(keyword) == ~Includes(keyword, "++")

\* calculateRelevance for a keyword that is a valid regular expression.
calculateRelevance(keyword, sentence) ==
    LET keywordCount == Len(findKeywordPositions(toLowerCase(sentence), keyword))
    IN  Min(50 + Min(keywordCount * 10, 30)
            + (IF Len(sentence) < 150 THEN 10 ELSE 0)
            + (IF Includes(sentence, "learn") \/ Includes(sentence, "read")
                  \/ Includes(sentence, "guide") THEN 10 ELSE 0),
            100)

\* Lines 36-52: the opportunities one keyword of one page gives.
keywordOpportunities(targetContent, sentences, page, keyword) ==
    LET positions == findKeywordPositions(toLowerCase(targetContent), keyword)
        open      == SelectSeq(positions, LAMBDA position :
                        /\ findSentenceAtPosition(sentences, position) # None
                        /\ ~hasLinkNearby(targetContent, position, 100))
    IN  [i \in 1..Len(open) |->
            LET sentence == findSentenceAtPosition(sentences, open[i])[1]
            IN  [fromPage |-> "current",
                 toPage |-> page.slug,
                 anchorText |-> keyword,
                 relevanceScore |-> calculateRelevance(keyword, sentence),
                 contextSnippet |-> Substring(sentence, 0, 100),
                 position |-> open[i],
                 reason |-> "Contextually relevant mention of \"" \o keyword \o "\""]]

\* Lines 32-54: the opportunities of a page, keyword by keyword.
pageOpportunities(targetContent, sentences, page) ==
    LET keywords == extractKeywords(page.title)
    IN  Flatten([k \in 1..Len(keywords) |->
                    keywordOpportunities(targetContent, sentences, page, keywords[k])])

\* distributeEvenly, from the i-th opportunity on.
RECURSIVE distributeFrom(_, _, _, _, _)
distributeFrom(opps, i, minDistance, lastPosition, distributed) ==
    IF i > Len(opps) THEN distributed
    ELSE IF opps[i].position - lastPosition >= minDistance \/ Len(distributed) = 0
    THEN distributeFrom(opps, i + 1, minDistance, opps[i].position,
                        Append(distributed, opps[i]))
    ELSE distributeFrom(opps, i + 1, minDistance, lastPosition, distributed)

\* Mutant: every opportunity handed in is kept.
distributeEvenlyAll(opps, contentLength) == opps

distributeEvenly(opps, contentLength) ==
    distributeFrom(opps, 1, contentLength \div (Len(opps) + 1), 0, <<>>)

\* generateLinkOpportunities throws when calculateRelevance is reached with
\* a keyword that is not a regular expression.
generateLinkOpportunitiesThrows(targetContent, existingPages) ==
    \E p \in 1..Len(existingPages) :
        \E keyword \in Range(extractKeywords(existingPages[p].title)) :
            /\ ~isValidRegExp(keyword)
            /\ LET sentences == extractSentences(targetContent)
               IN  \E position \in Range(findKeywordPositions(toLowerCase(targetContent),
                                                             keyword)) :
                       /\ findSentenceAtPosition(sentences, position) # None
                       /\ ~hasLinkNearby(targetContent, position, 100)

\* Lines 28-54: the opportunities in the order they are pushed.
opportunitiesOf(targetContent, sentences, existingPages) ==
    Flatten([p \in 1..Len(existingPages) |->
                pageOpportunities(targetContent, sentences, existingPages[p])])

\* Lines 56-58: sort by relevanceScore, greatest first, and slice(0, maxLinks).
sortedOpportunities(opportunities, maxLinks) ==
    Slice(SortDescending(opportunities,
                         LAMBDA a, b : a.relevanceScore > b.relevanceScore),
          0, maxLinks)

generateLinkOpportunitiesOf(targetContent, existingPages, maxLinks) ==
    distributeEvenly(
        sortedOpportunities(
            opportunitiesOf(targetContent, extractSentences(targetContent),
                            existingPages),
            maxLinks),
        Len(targetContent))

\* Mutant: lastIndexOf, the last occurrence after the recorded offset.
injectOpportunityLast(opp, modifiedContent, injected) ==
    LET afterLink   == SubstringFrom(modifiedContent, opp.position)
        starts      == {i \in 0..(Len(afterLink) - Len(opp.anchorText)) :
                           SubSeq(afterLink, i + 1, i + Len(opp.anchorText))
                               = opp.anchorText}
        anchorStart == IF starts = {} THEN -1 ELSE MaxOf(starts)
        actualPosition == opp.position + anchorStart
        before      == Substring(modifiedContent, 0, actualPosition)
        after       == SubstringFrom(modifiedContent,
                                     actualPosition + Len(opp.anchorText))
        link        == "<a href=\"/" \o opp.toPage \o "\" class=\"internal-link\">"
                       \o opp.anchorText \o "</a>"
    IN  IF opp.position \notin injected /\ anchorStart # -1 /\ anchorStart < 200
        THEN [content |-> before \o link \o after,
              injected |-> injected \cup {actualPosition}]
        ELSE [content |-> modifiedContent, injected |-> injected]

\* Lines 143-159: one turn of the loop, for the content so far and the
\* offsets injected at.
injectOpportunity(opp, modifiedContent, injected) ==
    LET afterLink   == SubstringFrom(modifiedContent, opp.position)
        anchorStart == IndexOf(afterLink, opp.anchorText, 0)
        actualPosition == opp.position + anchorStart
        before      == Substring(modifiedContent, 0, actualPosition)
        after       == SubstringFrom(modifiedContent,
                                     actualPosition + Len(opp.anchorText))
        link        == "<a href=\"/" \o opp.toPage \o "\" class=\"internal-link\">"
                       \o opp.anchorText \o "</a>"
    IN  IF opp.position \notin injected /\ anchorStart # -1 /\ anchorStart < 200
        THEN [content |-> before \o link \o after,
              injected |-> injected \cup {actualPosition}]
        ELSE [content |-> modifiedContent, injected |-> injected]

\* injectContextualLinks, from the i-th opportunity on.
RECURSIVE injectFrom(_, _, _, _)
injectFrom(opps, i, modifiedContent, injected) ==
    IF i > Len(opps) THEN [content |-> modifiedContent, injected |-> injected]
    ELSE LET turn == injectOpportunity(opps[i], modifiedContent, injected)
         IN  injectFrom(opps, i + 1, turn.content, turn.injected)

injectContextualLinksOf(text, opps) == injectFrom(opps, 1, text, {})

\* ---- the texts and corpora handed to the linking engine.
MaxLinkPages == 2        \* most pages of a corpus links are sought for
MaxPasses == 2           \* most injectContextualLinks calls on one text

LinkTitles ==
    {[title |-> "Cycling Watches", slug |-> "cycling-watches", wordCount |-> 2500],
     [title |-> "Running Shoes", slug |-> "best-trainers", wordCount |-> 1200],
     [title |-> "C++17 Guide", slug |-> "cpp17", wordCount |-> 0]}

LinkCorpora ==
    UNION {{[i \in 1..n |-> SitemapPage(i, ts[i])] : ts \in [1..n -> LinkTitles]} :
              n \in 0..MaxLinkPages}

TargetContents ==
    {"learn about cycling today. our cycling watches guide helps you read more!",
     "Cycling is fun. New running shoes matter? Yes, running shoes matter",
     "see <a href=\"/news\">news</a> on cycling now. " \o Repeat("so ", 40)
         \o "then try running shoes. ",
     "Cycling " \o Repeat("far ", 50) \o "cycling.",
     "learn c++17 today."}

InitLinks ==
    /\ linkContent \in TargetContents
    /\ pages \in LinkCorpora
    /\ linkLimit \in {1, 15}
    /\ linkOpportunities = None
    /\ linked = <<>>
    /\ clusterPc = "idle"
    /\ pageIndex = 0
    /\ clusters = <<>>
    /\ processed = {}
    /\ AEOIdle
    /\ PipeIdle
    /\ TrackerIdle
    /\ EngineIdle

\* generateLinkOpportunities(targetContent, existingPages, maxLinks)
generateLinkOpportunities ==
    /\ linkOpportunities = None
    /\ linkOpportunities' =
           IF generateLinkOpportunitiesThrows(linkContent, pages)
           THEN [status |-> "threw", value |-> "SyntaxError"]
           ELSE [status |-> "returned",
                 value |-> generateLinkOpportunitiesOf(linkContent, pages, linkLimit)]
    /\ UNCHANGED <<schedVars, trackerVars, aeoVars, clusterVars, pipeVars, linkContent,
                   linkLimit, linked>>

\* injectContextualLinks(content, opportunities), on the text as it is
\* after the passes made so far.
injectContextualLinks ==
    /\ linkOpportunities # None
    /\ linkOpportunities.status = "returned"
    /\ Len(linked) < MaxPasses
    /\ linked' = Append(linked,
                        injectContextualLinksOf(
                            IF linked = <<>> THEN linkContent
                            ELSE linked[Len(linked)].content,
                            linkOpportunities.value))
    /\ UNCHANGED <<schedVars, trackerVars, aeoVars, clusterVars, pipeVars, linkContent,
                   linkLimit, linkOpportunities>>

NextLinks ==
    \/ generateLinkOpportunities
    \/ injectContextualLinks

SpecLinks == InitLinks /\ [][NextLinks]_vars

\* ---- injectContextualLinks on a list its caller wrote, one turn of the
\* ---- loop at a time: linked holds the content and the offsets after each
\* ---- opportunity.
MaxOpportunities == 2    \* longest list handed to injectContextualLinks

InjectedContents ==
    {"learn about cycling today. our cycling watches guide helps you read more!",
     "Cycling and cycling watches",
     "cycling " \o Repeat("far ", 50) \o "watches"}

OpportunityAt(position, anchorText, toPage) ==
    [fromPage |-> "current", toPage |-> toPage, anchorText |-> anchorText,
     relevanceScore |-> 80, contextSnippet |-> "", position |-> position,
     reason |-> "Contextually relevant mention of \"" \o anchorText \o "\""]

WrittenOpportunities ==
    {OpportunityAt(position, anchorText, toPage) :
        position \in {0, 9, 12, 31}, anchorText \in {"cycling", "watches"},
        toPage \in {"cycling-watches", "best-trainers"}}

InitInject ==
    /\ linkContent \in InjectedContents
    /\ linkLimit = 15
    /\ linkOpportunities \in
           {[status |-> "returned", value |-> opps] :
               opps \in UNION {[1..n -> WrittenOpportunities] : n \in 0..MaxOpportunities}}
    /\ linked = <<>>
    /\ ClusterIdle
    /\ AEOIdle
    /\ PipeIdle
    /\ TrackerIdle
    /\ EngineIdle

\* Lines 142-160: the loop body for the next opportunity of the list.
injectTurn ==
    /\ linkOpportunities # None
    /\ Len(linked) < Len(linkOpportunities.value)
    /\ linked' = Append(linked,
                        injectOpportunity(
                            linkOpportunities.value[Len(linked) + 1],
                            IF linked = <<>> THEN linkContent
                            ELSE linked[Len(linked)].content,
                            IF linked = <<>> THEN {}
                            ELSE linked[Len(linked)].injected))
    /\ UNCHANGED <<schedVars, trackerVars, aeoVars, clusterVars, pipeVars, linkContent,
                   linkLimit, linkOpportunities>>

NextInject == injectTurn

SpecInject == InitInject /\ [][NextInject]_vars

(***************************************************************************)
(* The scores of src/unnamed/part_001, lines 448-516, over a                *)
(* GeneratedContent.  A text field that is missing is "", a list that is    *)
(* missing is <<>>; jsonLdSchema and strategy are None when missing,        *)
(* jsonLdSchema otherwise holds the object's keys.                          *)
(***************************************************************************)
GeneratedContent(title, metaDescription, keyword, semanticKeywords, text,
                 imageDetails, faqs, jsonLdSchema, references, strategy,
                 keyTakeaways) ==
    [title |-> title, metaDescription |-> metaDescription,
     primaryKeyword |-> keyword, semanticKeywords |-> semanticKeywords,
     content |-> text, imageDetails |-> imageDetails, faqSection |-> faqs,
     jsonLdSchema |-> jsonLdSchema, references |-> references,
     strategy |-> strategy, keyTakeaways |-> keyTakeaways]

calculateContentQualityScore(c) ==
    Min((IF Len(c.title) > 20 THEN 10 ELSE 0)
        + (IF Len(c.metaDescription) >= 120 THEN 10 ELSE 0)
        + (IF Len(c.semanticKeywords) >= 5 THEN 15 ELSE 0)
        + (IF Len(c.content) > 1000 THEN 20 ELSE 0)
        + (IF Len(c.imageDetails) >= 2 THEN 10 ELSE 0)
        + (IF Len(c.faqSection) >= 3 THEN 10 ELSE 0)
        + (IF c.jsonLdSchema # None THEN 10 ELSE 0)
        + (IF Len(c.references) >= 3 THEN 15 ELSE 0),
        100)

Quotes == {"\"", "'"}

\* content.match(/href=["']([^"']+)["']/g) || [], from the offset the last
\* match ended at.
RECURSIVE hrefMatchesFrom(_, _)
hrefMatchesFrom(text, from) ==
    LET at     == IndexOf(text, "href=", from)
        closes == {i \in (at + 6)..(Len(text) - 1) : CharAt(text, i) \in Quotes}
        close  == MinOf(closes)
    IN  IF at = -1 THEN <<>>
        ELSE IF at + 5 < Len(text) /\ CharAt(text, at + 5) \in Quotes
                /\ closes # {} /\ close > at + 6
        THEN <<Substring(text, at, close + 1)>> \o hrefMatchesFrom(text, close + 1)
        ELSE hrefMatchesFrom(text, at + 1)

\* content.split(/\s+/).length: one more than the runs of whitespace.
wordCountOf(text) ==
    Cardinality({i \in 0..(Len(text) - 1) :
                    /\ CharAt(text, i) \in Whitespace
                    /\ (i = 0 \/ CharAt(text, i - 1) \notin Whitespace)}) + 1

\* Math.min((internalLinks.length / wordCount) * 100 * 10, 100)
calculateInternalLinkDensity(text, existingPages) ==
    LET linkMatches   == hrefMatchesFrom(text, 0)
        internalLinks == SelectSeq(linkMatches, LAMBDA link :
                            \E p \in 1..Len(existingPages) :
                                Includes(link, existingPages[p].slug))
        wordCount     == wordCountOf(text)
    IN  IF Len(internalLinks) * 1000 > 100 * wordCount
        THEN Div(100, 1)
        ELSE Div(Len(internalLinks) * 1000, wordCount)

calculateSemanticRichness(c) ==
    Min(Min(Len(c.semanticKeywords) * 5, 30)
        + (IF c.strategy # None THEN 20 ELSE 0)
        + (IF Len(c.faqSection) >= 3 THEN 20 ELSE 0)
        + (IF Len(c.references) >= 3 THEN 15 ELSE 0)
        + (IF Len(c.keyTakeaways) >= 3 THEN 15 ELSE 0),
        100)

\* calculateAEOScore(content) of the tracker's module, lines 496-516.
calculateAEOScoreOf(c) ==
    Min((IF Includes(c.content, "<p>") /\ IndexOf(c.content, "</p>", 0) < 300
         THEN 20 ELSE 0)
        + (IF Includes(c.content, "<ul>") \/ Includes(c.content, "<ol>")
           THEN 15 ELSE 0)
        + (IF Includes(c.content, "<table>") THEN 15 ELSE 0)
        + (IF Len(c.faqSection) >= 3 THEN 25 ELSE 0)
        + (IF c.jsonLdSchema # None /\ Len(c.jsonLdSchema[1]) > 0 THEN 25 ELSE 0),
        100)

(***************************************************************************)
(* EnhancedContentGenerator.generateWithOptimizations                       *)
(* (src/unnamed/part_000, lines 25-121): the batch goes to                  *)
(* executeParallelBatch of an engine of width 5, then every result is       *)
(* enhanced in turn and the list is handed to onComplete.  The corpus is    *)
(* `pages`, the store takes every write and the clock stands still.         *)
(***************************************************************************)
\* result.data as GeneratedContent: the payload behind the result's handle.
\* A payload of None is a falsy answer ("" or null).
payloadOf(result) == generated[result.data[2]]

\* Line 42: if (!result.success || !result.data) return result
returnedAsIs(result) == ~result.success \/ payloadOf(result) = None

\* Lines 46-50: the call that can throw while one result is enhanced.
enhanceThrows(result, existingPages) ==
    generateLinkOpportunitiesThrows(payloadOf(result)[1].content, existingPages)

\* Lines 46-55: the content with the links of the corpus injected.
linkedContentOf(text, existingPages) ==
    injectContextualLinksOf(text,
        generateLinkOpportunitiesOf(text, existingPages, 15)).content

\* Lines 68-72: the four scores of the enhanced content.
scoresOf(enhancedContent, existingPages) ==
    [qualityScore |-> calculateContentQualityScore(enhancedContent),
     aeoScore |-> calculateAEOScoreOf(enhancedContent),
     linkDensity |-> calculateInternalLinkDensity(enhancedContent.content,
                                                   existingPages),
     semanticRichness |-> calculateSemanticRichness(enhancedContent)]

\* Lines 63-72: { ...generatedContent, content: aeoResult.optimizedContent }
\* and what is kept of the optimizer's result.
enhancedWith(enhancedContent, optimized, existingPages) ==
    [data |-> enhancedContent,
     recommendations |-> optimized.recommendations,
     metrics |-> scoresOf(enhancedContent, existingPages)]

\* Lines 57-66: the optimizer's result for the linked content.
optimizedWith(generatedContent, optimized, existingPages) ==
    enhancedWith([generatedContent EXCEPT !.content = optimized.optimizedContent],
                 optimized, existingPages)

enhanceContent(generatedContent, existingPages) ==
    optimizedWith(generatedContent,
                  optimizeForAnswerEnginesOf(
                      linkedContentOf(generatedContent.content, existingPages),
                      generatedContent.primaryKeyword,
                      generatedContent.faqSection),
                  existingPages)

\* Lines 44-72: the enhanced content of one result and its four scores.
enhance(result, existingPages) == enhanceContent(payloadOf(result)[1], existingPages)

\* Lines 74-81: the sample handed to recordMetrics.
sampleOf(result, scores, t) ==
    PerformanceMetrics(result.duration, scores.qualityScore, scores.linkDensity,
                       scores.semanticRichness, scores.aeoScore, t)

\* Lines 83-92: the entry handed to recordOptimization.
logOf(item, result, enhanced, t) ==
    [id |-> item.id, url |-> item.title, title |-> item.title, timestamp |-> t,
     beforeScore |-> 70, afterScore |-> enhanced.metrics.qualityScore,
     improvements |-> enhanced.recommendations, duration |-> result.duration]

\* Lines 96-105: { ...result, data: enhancedContent, metrics }
enhancedResult(result, enhanced) ==
    [id |-> result.id, success |-> result.success, data |-> enhanced.data,
     error |-> result.error, duration |-> result.duration,
     metrics |-> enhanced.metrics]

\* ---- the items, the answers of the backend and the corpus.
MaxItems == 4            \* longest list of content items
MaxUnusual == 1          \* most answers of a batch that are not the usual article

ContentItem(i) == [id |-> i, title |-> "Item " \o CharAt("123456789", i - 1)]

CyclingArticle ==
    GeneratedContent("The Complete Guide to Cycling Watches", "", "cycling",
                     <<"gps", "heart rate", "strap", "battery", "maps">>,
                     "<p>Cycling is a sport that many people learn to enjoy with watches.</p>",
                     <<>>, FaqOf(3), Some(<<"@type">>), <<>>, None, <<>>)

CppArticle ==
    GeneratedContent("C++17 in Practice", "", "c++17", <<>>,
                     "<p>Modern c++17 is a language you can learn quickly.</p>",
                     <<>>, <<>>, None, <<>>, None, <<>>)

Payloads == {None, Some(CyclingArticle), Some(CppArticle)}

ExistingPages ==
    <<SitemapPage(1, [title |-> "Cycling Watches", slug |-> "cycling-watches",
                      wordCount |-> 2500]),
      SitemapPage(2, [title |-> "C++17 Guide", slug |-> "cpp17", wordCount |-> 0])>>

\* The backend answers a call or fails it with an Error; the other ways a
\* call can end differ in the error text of the result only.
BackendAnswers == {"ok", "error"}

\* Lines 29-37: the engine and the tasks of the items.
InitPipeline ==
    /\ contentItems \in {[i \in 1..n |-> ContentItem(i)] : n \in 0..MaxItems}
    /\ generated \in {g \in [1..Len(contentItems) -> Payloads] :
                         Cardinality({i \in DOMAIN g : g[i] # Some(CyclingArticle)})
                             <= MaxUnusual}
    /\ pages = ExistingPages
    /\ tasks = [index \in 1..Len(contentItems) |->
                   AITask(contentItems[index].id,
                          IF index - 1 < 3 THEN "high" ELSE "medium")]
    /\ maxConcurrent = 5
    /\ entry = "executeParallelBatch"
    /\ pc = "start"
    /\ callState = [i \in 1..Len(tasks) |-> "idle"]
    /\ calls = [i \in 1..Len(tasks) |-> 0]
    /\ SchedIdle
    /\ pipePc = "try"
    /\ enhancedResults = <<>>
    /\ completed = None
    /\ caught = None
    /\ clusterPc = "idle"
    /\ pageIndex = 0
    /\ clusters = <<>>
    /\ processed = {}
    /\ AEOIdle
    /\ LinkIdle
    /\ TrackerIdle

\* Mutant: the sample is recorded and the log entry is not.
recordSampleOnly(sample, log, enhancedEntry) ==
    LET samples == evict(Append(metrics, sample))
        first   == saveToStorage(storage, samples, logs, "ok")
    IN  /\ metrics' = samples
        /\ storage' = first.storage
        /\ ret' = [op |-> "recordMetrics", status |-> first.status, value |-> None]
        /\ recordedMetrics' = Append(recordedMetrics, sample)
        /\ storeOutcome' = "ok"
        /\ enhancedResults' = Append(enhancedResults, enhancedEntry)
        /\ UNCHANGED <<logs, recordedLogs, now, pipePc, caught>>

\* Lines 74-92: recordMetrics, then recordOptimization; the entry of the
\* result list is the callback's return value.
recordBoth(sample, log, enhancedEntry) ==
    LET samples == evict(Append(metrics, sample))
        entries == evict(Append(logs, log))
        first   == saveToStorage(storage, samples, logs, "ok")
        second  == saveToStorage(first.storage, samples, entries, "ok")
    IN  /\ metrics' = samples
        /\ logs' = entries
        /\ storage' = second.storage
        /\ ret' = [op |-> "recordOptimization", status |-> second.status,
                   value |-> None]
        /\ recordedMetrics' = Append(recordedMetrics, sample)
        /\ recordedLogs' = Append(recordedLogs, log)
        /\ storeOutcome' = "ok"
        /\ enhancedResults' = Append(enhancedResults, enhancedEntry)
        /\ UNCHANGED <<now, pipePc, caught>>

recordEnhanced(item, result, enhanced) ==
    recordBoth(sampleOf(result, enhanced.metrics, now),
               logOf(item, result, enhanced, now),
               enhancedResult(result, enhanced))

\* Lines 41-106: one call of the results.map callback, for the next result.
enhanceResult ==
    /\ pipePc = "try"
    /\ pc = "done"
    /\ Len(enhancedResults) < Len(returned)
    /\ LET index  == Len(enhancedResults) + 1
           result == returned[index]
       IN  IF returnedAsIs(result)
           THEN /\ enhancedResults' = Append(enhancedResults, result)
                /\ UNCHANGED <<trackerVars, pipePc, caught>>
           ELSE IF enhanceThrows(result, pages)
           THEN /\ pipePc' = "caught"
                /\ caught' = Some("SyntaxError")
                /\ UNCHANGED <<trackerVars, enhancedResults>>
           ELSE recordEnhanced(contentItems[index], result, enhance(result, pages))
    /\ UNCHANGED <<schedVars, aeoVars, clusterVars, linkVars, contentItems,
                   generated, completed>>

\* Line 112: onComplete(enhancedResults), once the map has ended.
onComplete ==
    /\ pipePc = "try"
    /\ pc = "done"
    /\ Len(enhancedResults) = Len(returned)
    /\ completed' = Some(enhancedResults)
    /\ pipePc' = "completed"
    /\ UNCHANGED <<schedVars, trackerVars, aeoVars, clusterVars, linkVars,
                   contentItems, generated, enhancedResults, caught>>

NextPipeline ==
    \/ executeParallelBatch
    \/ dispatchChunk
    \/ \E k \in 1..MaxItems, outcome \in BackendAnswers : settleCall(k, outcome)
    \/ collectChunk
    \/ returnParallelBatch
    \/ enhanceResult
    \/ onComplete

SpecPipeline == InitPipeline /\ [][NextPipeline]_vars

\* ---- executeParallelBatch alone, called on an engine of any width or by
\* ---- the component on its engine of width 5.
InitParallel ==
    /\ InitEngine(UniformBatches)
    /\ entry = "executeParallelBatch"
    /\ TrackerIdle
    /\ ContentIdle

InitOrder == InitParallel \/ InitPipeline

BackendOf(caller) == IF caller = "idle" THEN Outcomes ELSE BackendAnswers

NextOrder ==
    \/ executeParallelBatch
    \/ dispatchChunk
    \/ \E k \in 1..MaxUniformTasks, outcome \in BackendOf(pipePc) :
           settleCall(k, outcome)
    \/ collectChunk
    \/ returnParallelBatch
    \/ enhanceResult
    \/ onComplete

SpecOrder == InitOrder /\ [][NextOrder]_vars

\* ---- the engine constructed with any integer width, chunkTasks running
\* ---- turn by turn.
MaxChunked == 3          \* longest batch whose chunking is followed
MaxBelowOne == 1         \* widths from -MaxBelowOne up to MaxConcurrent
MaxChunks == MaxChunked + 1   \* chunks kept in `chunks`; later pushes are not

InitChunking ==
    /\ tasks \in UNION {{[i \in 1..n |-> AITask(i, f[i])] :
                            f \in [1..n -> Range(Priorities)]} : n \in 0..MaxChunked}
    /\ maxConcurrent \in (-MaxBelowOne)..MaxConcurrent
    /\ entry \in {"executeBatch", "executeParallelBatch"}
    /\ pc = "start"
    /\ callState = [i \in 1..Len(tasks) |-> "idle"]
    /\ calls = [i \in 1..Len(tasks) |-> 0]
    /\ SchedIdle
    /\ TrackerIdle
    /\ ContentIdle

\* The list executeParallelBatch was called with: the batch, or the group
\* executeGroup passed on.
chunkedTasks == IF entry = "executeBatch" THEN Head(groups).tasks ELSE tasks

\* Line 49 and line 133: executeParallelBatch calls chunkTasks, whose loop
\* starts with no chunk.
enterChunkTasks ==
    /\ \/ pc = "start" /\ entry = "executeParallelBatch"
       \/ pc = "nextGroup" /\ groups # <<>>
    /\ chunks' = <<>>
    /\ dispatched' = Append(dispatched, [given |-> Ids(chunkedTasks), windows |-> <<>>])
    /\ pc' = "chunkTasks"
    /\ UNCHANGED <<contentVars, trackerVars, tasks, maxConcurrent, entry, groups,
                   results, allResults, chunk, promises, returned, callState, calls>>

\* Line 134: i < tasks.length holds and the loop body is entered.
enterLoopBody ==
    /\ pc = "chunkTasks"
    /\ loopIndex(Len(chunks), maxConcurrent) < Len(chunkedTasks)
    /\ pc' = "pushChunk"
    /\ UNCHANGED <<contentVars, trackerVars, tasks, maxConcurrent, entry, groups,
                   results, chunks, allResults, chunk, promises, returned, callState,
                   calls, dispatched>>

\* Lines 135 and 134: a slice is pushed and i += chunkSize.  Of an array
\* that outgrows MaxChunks the first MaxChunks chunks are kept; a loop
\* that gets there has an index that is not above 0.
pushChunk ==
    /\ pc = "pushChunk"
    /\ chunks' = IF Len(chunks) < MaxChunks
                 THEN Append(chunks,
                             Slice(chunkedTasks,
                                   loopIndex(Len(chunks), maxConcurrent),
                                   loopIndex(Len(chunks), maxConcurrent) + maxConcurrent))
                 ELSE chunks
    /\ pc' = "chunkTasks"
    /\ UNCHANGED <<contentVars, trackerVars, tasks, maxConcurrent, entry, groups,
                   results, allResults, chunk, promises, returned, callState, calls,
                   dispatched>>

\* Lines 134, 137 and 50: i < tasks.length fails, chunkTasks returns and the
\* loop over the chunks starts.
returnChunks ==
    /\ pc = "chunkTasks"
    /\ ~(loopIndex(Len(chunks), maxConcurrent) < Len(chunkedTasks))
    /\ allResults' = <<>>
    /\ pc' = "nextChunk"
    /\ UNCHANGED <<contentVars, trackerVars, tasks, maxConcurrent, entry, groups,
                   results, chunks, chunk, promises, returned, callState, calls,
                   dispatched>>

settleChunked ==
    \E k \in 1..MaxConcurrent, outcome \in BackendAnswers : settleCall(k, outcome)

NextChunking ==
    \/ executeBatch
    \/ enterChunkTasks
    \/ enterLoopBody
    \/ pushChunk
    \/ returnChunks
    \/ dispatchChunk
    \/ settleChunked
    \/ collectChunk
    \/ returnParallelBatch
    \/ returnBatch

SpecChunking == InitChunking /\ [][NextChunking]_vars

\* Every backend call resolves or fails, and the engine takes its next step.
FairChunking ==
    /\ SpecChunking
    /\ WF_vars(settleChunked)
    /\ WF_vars(executeBatch \/ enterChunkTasks \/ enterLoopBody \/ pushChunk
                \/ returnChunks \/ dispatchChunk \/ collectChunk
                \/ returnParallelBatch \/ returnBatch)

(***************************************************************************)
(* What the recording stub and the returned results show.                  *)
(***************************************************************************)
TaskIds == {tasks[i].id : i \in 1..Len(tasks)}
TaskOf(i) == CHOOSE t \in Range(tasks) : t.id = i
Rank(p) == CHOOSE k \in 1..Len(Priorities) : Priorities[k] = p
Ended(i) == callState[i] \in Outcomes
InFlight == {i \in DOMAIN callState : callState[i] = "pending"}
ResultsFor(i) == {k \in 1..Len(returned) : returned[k].id = i}
CeilDiv(n, d) == (n + d - 1) \div d
WindowsOf(g) == dispatched[g].windows

\* C1: when executeBatch or executeParallelBatch returns, it returns as many
\* results as tasks were submitted and every submitted identifier is carried
\* by exactly one result.
C1_OneResultPerTask ==
    pc = "done" =>
        /\ Len(returned) = Len(tasks)
        /\ \A i \in TaskIds : Cardinality(ResultsFor(i)) = 1
        /\ \A k \in 1..Len(returned) : returned[k].id \in TaskIds

C1_Witness ==
    /\ pc = "done"
    /\ entry = "executeBatch"
    /\ Len(tasks) >= 4
    /\ Len(dispatched) = 3
    /\ \E i, j \in TaskIds : callState[i] = "ok" /\ callState[j] \in Failed

\* C2: in executeBatch no task has its backend call started while a task of
\* a higher priority in the batch has not yet resolved or failed.
C2_PriorityBarrier ==
    entry = "executeBatch" =>
        \A i, j \in TaskIds :
            (Rank(TaskOf(i).priority) < Rank(TaskOf(j).priority)
             /\ callState[j] # "idle") => Ended(i)

C2_Witness ==
    /\ entry = "executeBatch"
    /\ \E i, j \in TaskIds :
        /\ TaskOf(i).priority = "high" /\ callState[i] \in Failed
        /\ TaskOf(j).priority = "low" /\ callState[j] = "pending"
        /\ j < i

\* C3: the windows started for the n tasks of one executeParallelBatch
\* invocation are, in order, the consecutive runs of L tasks in submitted
\* order (the last one possibly shorter), ceil(n/L) of them once the
\* invocation is over, and never more than L calls are in flight.
WindowsInOrder(d) ==
    \A k \in 1..Len(d.windows) :
        /\ d.windows[k] = SubSeq(d.given, (k - 1) * maxConcurrent + 1,
                                 Min(k * maxConcurrent, Len(d.given)))
        /\ Len(d.windows[k]) >= 1
        /\ k * maxConcurrent <= Len(d.given) => Len(d.windows[k]) = maxConcurrent

C3_Windows ==
    /\ \A g \in 1..Len(dispatched) :
        /\ WindowsInOrder(dispatched[g])
        /\ (g < Len(dispatched) \/ pc = "done") =>
              Len(WindowsOf(g)) = CeilDiv(Len(dispatched[g].given), maxConcurrent)
    /\ Cardinality(InFlight) <= maxConcurrent

C3_Witness ==
    /\ pc = "done"
    /\ Len(tasks) = 5
    /\ maxConcurrent = 2
    /\ Len(dispatched) = 1
    /\ WindowsOf(1) = <<<<1, 2>>, <<3, 4>>, <<5>>>>

\* C4: every task of a window that is no longer the latest one has resolved
\* or failed, only tasks of the latest window are in flight, and once the
\* batch call is over every task has had its call, whatever failed.
C4_WindowBarrier ==
    /\ \A g \in 1..Len(dispatched) : \A k \in 1..Len(WindowsOf(g)) :
          (g < Len(dispatched) \/ k < Len(WindowsOf(g))) =>
              \A i \in Range(WindowsOf(g)[k]) : Ended(i)
    /\ InFlight \subseteq Range(Ids(chunk))
    /\ pc = "done" => \A i \in TaskIds : Ended(i)

C4_Witness ==
    /\ Len(dispatched) = 1
    /\ Len(WindowsOf(1)) = 2
    /\ Len(WindowsOf(1)[1]) >= 2
    /\ \E i \in Range(WindowsOf(1)[1]) : callState[i] = "nullish"
    /\ \E i \in Range(WindowsOf(1)[1]) : callState[i] = "ok"
    /\ \E i \in Range(WindowsOf(1)[2]) : callState[i] = "pending"

\* C5: the batch call never throws; each returned result is decided by the
\* call of its own task alone (success with that call's content exactly when
\* that call resolved), and a result with success=false has data=null and a
\* non-empty error.
OwnResult(r) ==
    /\ r.id \in TaskIds
    /\ r.success <=> callState[r.id] = "ok"
    /\ r.success => r.data = Content(TaskOf(r.id))
    /\ ~r.success => (r.data = Null /\ r.error \notin {"", Absent})

C5_FailureIsolated ==
    /\ pc # "threw"
    /\ pc = "done" => \A k \in 1..Len(returned) : OwnResult(returned[k])

C5_Witness ==
    /\ pc = "done"
    /\ Len(dispatched) = 1
    /\ Len(WindowsOf(1)) = 1
    /\ \E i, j, k \in Range(WindowsOf(1)[1]) :
        /\ callState[i] = "nullish" /\ callState[j] = "bare" /\ callState[k] = "ok"
        /\ \E a, b, c \in 1..Len(returned) :
            /\ returned[a].id = i /\ ~returned[a].success
            /\ returned[b].id = j /\ returned[b].error = "AI call failed"
            /\ returned[c].id = k /\ returned[c].success

\* C6: callAI is never invoked twice for a task, is invoked exactly once for
\* every task by the time the batch call returns, and a task whose call
\* failed is carried by exactly one result.
C6_CalledOnce ==
    \A i \in TaskIds :
        /\ calls[i] <= 1
        /\ pc = "done" =>
            /\ calls[i] = 1
            /\ callState[i] \in Failed => Cardinality(ResultsFor(i)) = 1

C6_Witness ==
    /\ pc = "done"
    /\ Len(tasks) >= 3
    /\ \E i \in TaskIds :
        /\ callState[i] \in Failed
        /\ calls[i] = 1
        /\ \E k \in 1..Len(returned) : returned[k].id = i /\ ~returned[k].success

(***************************************************************************)
(* What the tracker's callers see.                                         *)
(***************************************************************************)
Last(s) == s[Len(s)]
LastN(s, n) == SubSeq(s, Len(s) - Min(Len(s), n) + 1, Len(s))
Scores(ms) == [i \in 1..Len(ms) |-> ms[i].contentQualityScore]

\* Sum of the content-quality scores at positions lo..hi of a window.
RECURSIVE QualitySum(_, _, _)
QualitySum(ms, lo, hi) ==
    IF lo > hi THEN 0 ELSE ms[lo].contentQualityScore + QualitySum(ms, lo + 1, hi)

\* C7: each window holds at most MAX_HISTORY entries, which are the most
\* recently recorded ones in recording order; after MAX_HISTORY + 1 records
\* the window holds MAX_HISTORY entries, the first one recorded is gone and
\* the last one recorded is there.
RollingWindow(window, recorded) ==
    /\ Len(window) <= MAX_HISTORY
    /\ window = LastN(recorded, MAX_HISTORY)
    /\ Len(recorded) = MAX_HISTORY + 1 =>
        /\ Len(window) = MAX_HISTORY
        /\ recorded[1] \notin Range(window)
        /\ Last(window) = recorded[MAX_HISTORY + 1]

C7_RollingWindows ==
    /\ RollingWindow(metrics, recordedMetrics)
    /\ RollingWindow(logs, recordedLogs)

C7_Witness ==
    /\ Len(recordedMetrics) = MAX_HISTORY + 1
    /\ Len(metrics) = MAX_HISTORY
    /\ metrics[1] = recordedMetrics[2]
    /\ Len(recordedLogs) = MAX_HISTORY + 1
    /\ Len(logs) = MAX_HISTORY
    /\ logs[1] = recordedLogs[2]

\* The record getAverageMetrics would return if it returned the sample m.
AsAverage(m) ==
    [optimizationSpeed |-> Div(m.optimizationSpeed, 1),
     contentQualityScore |-> Div(m.contentQualityScore, 1),
     internalLinkDensity |-> Div(m.internalLinkDensity, 1),
     semanticRichness |-> Div(m.semanticRichness, 1),
     aeoScore |-> Div(m.aeoScore, 1),
     timestamp |-> m.timestamp]

AveragedOne == ret.op = "getAverageMetrics" /\ Len(recordedMetrics) = 1

\* C8 as stated: getAverageMetrics returns null on an empty window, and with
\* exactly one sample recorded it returns that sample, equal in every field.
C8_AverageEqualsSample ==
    /\ (ret.op = "getAverageMetrics" /\ metrics = <<>>) => ret.value = None
    /\ AveragedOne => ret.value = Some(AsAverage(metrics[1]))

\* C8 as amended: getAverageMetrics returns null on an empty window, and with
\* exactly one sample recorded it returns that sample's five measurements
\* unchanged; its timestamp is the clock's reading at the getAverageMetrics
\* call, which is not earlier than the sample's.
C8_AverageOfOne ==
    /\ (ret.op = "getAverageMetrics" /\ metrics = <<>>) => ret.value = None
    /\ AveragedOne =>
        /\ Len(ret.value) = 1
        /\ [ret.value[1] EXCEPT !.timestamp = metrics[1].timestamp]
               = AsAverage(metrics[1])
        /\ metrics[1].timestamp <= ret.value[1].timestamp
        /\ ret.value[1].timestamp <= now

C8_Witness ==
    /\ AveragedOne
    /\ ret.value # None
    /\ ret.value[1].contentQualityScore = Div(55, 1)
    /\ ret.value[1].timestamp > metrics[1].timestamp

\* C9: with at least 10 samples getPerformanceTrend is decided by the mean
\* score of the last 5 samples minus the mean of the 5 before them, and by
\* nothing else: improving above +2, declining below -2, stable otherwise.
TrendOfLastTen(ms) ==
    LET n      == Len(ms)
        recent == QualitySum(ms, n - 4, n)
        older  == QualitySum(ms, n - 9, n - 5)
    IN  IF recent - older > 2 * 5 THEN "improving"
        ELSE IF recent - older < -(2 * 5) THEN "declining"
        ELSE "stable"

Fifties == <<50, 50, 50, 50, 50>>
Sixties == <<60, 60, 60, 60, 60>>

C9_Trend ==
    (ret.op = "getPerformanceTrend" /\ Len(metrics) >= 10) =>
        /\ ret.value = Some(TrendOfLastTen(metrics))
        /\ Scores(metrics) = Fifties \o Sixties => ret.value = Some("improving")
        /\ Scores(metrics) = Sixties \o Fifties => ret.value = Some("declining")
        /\ Scores(metrics) = Fifties \o Fifties => ret.value = Some("stable")

C9_Witness ==
    /\ ret.op = "getPerformanceTrend"
    /\ Scores(metrics) = <<60>> \o Sixties \o <<50, 50, 50, 55, 55>>
    /\ ret.value = Some("declining")

\* C10: when the store throws on a write made by recordMetrics or
\* recordOptimization, the call still returns normally and the entry it was
\* given is the last one of the window in memory.
StoreThrew == storeOutcome \in {"firstThrows", "secondThrows"}

C10_StoreFailureSwallowed ==
    /\ (ret.op = "recordMetrics" /\ StoreThrew) =>
        /\ ret.status = "returned"
        /\ metrics # <<>>
        /\ Last(metrics) = Last(recordedMetrics)
    /\ (ret.op = "recordOptimization" /\ StoreThrew) =>
        /\ ret.status = "returned"
        /\ logs # <<>>
        /\ Last(logs) = Last(recordedLogs)

C10_Witness ==
    /\ ret.op = "recordOptimization"
    /\ storeOutcome = "firstThrows"
    /\ ret.status = "returned"
    /\ Len(logs) = 2
    /\ storage.optimizationLogs = Some(JSONstringify(SubSeq(logs, 1, 1)))

\* C18: with fewer than 5 samples, and with exactly 5 samples, whatever
\* their scores, getPerformanceTrend returns stable.
C18_StableUpToFive ==
    (ret.op = "getPerformanceTrend" /\ Len(metrics) <= 5) =>
        ret.value = Some("stable")

C18_Witness ==
    /\ ret.op = "getPerformanceTrend"
    /\ Scores(metrics) = <<50, 50, 50, 50, 60>>
    /\ ret.value = Some("stable")

\* C19: no tracker operation surfaces a storage failure: when the store
\* fails during clear() or loadFromStorage(), the call returns normally.
C19_StoreFailureNotSurfaced ==
    (ret.op \in {"clear", "loadFromStorage"} /\ StoreThrew) =>
        ret.status = "returned"

\* C20 as stated: when loadFromStorage runs and the store holds no value
\* under the metrics key (the log key), the metrics window (the log window)
\* is empty afterwards whatever it held before, and no error is raised.
AbsentKeysLeaveEmpty ==
    /\ storage.performanceMetrics = None => metrics' = <<>>
    /\ storage.optimizationLogs = None => logs' = <<>>
    /\ ret'.status = "returned"

C20_AbsentKeyEmptiesWindow == [][loadFromStore => AbsentKeysLeaveEmpty]_vars

\* C20, amended: when loadFromStorage runs and the store holds no value
\* under the metrics key (the log key), the metrics window (the log window)
\* is afterwards what it was in memory before the call, and no error is
\* raised.
AbsentKeysLeaveMemory ==
    /\ storage.performanceMetrics = None => metrics' = metrics
    /\ storage.optimizationLogs = None => logs' = logs
    /\ ret'.status = "returned"

C20_AbsentKeyKeepsWindow == [][loadFromStore => AbsentKeysLeaveMemory]_vars

C20_Witness ==
    /\ ret.op = "loadFromStorage"
    /\ storeOutcome = "ok"
    /\ storage.performanceMetrics = None
    /\ Len(metrics) = 2
    /\ storage.optimizationLogs # None
    /\ logs = JSONparse(storage.optimizationLogs[1])

(***************************************************************************)
(* What the optimizer's callers see.                                       *)
(***************************************************************************)
Optimized == aeoResult # None
SnippetsOf(type) ==
    SelectSeq(aeoResult[1].snippets, LAMBDA sn : sn.type = type)

\* C15: the direct answer is the first paragraph in document order whose
\* stripped length is in [40,300], that contains the primary keyword
\* case-insensitively and whose score (base 50, +20 for length 40..160 else
\* +10 for 161..300, +15 keyword present, +10 starts with keyword, +15
\* definitional pattern, +5 digit, clamped to 100) is at least 70; when no
\* paragraph qualifies there is no paragraph snippet.  A 50-character
\* paragraph starting with the keyword and matching the definitional
\* pattern scores 100.
HasKeyword(p) == Includes(toLowerCase(p), toLowerCase(primaryKeyword))
StartsWithKeyword(p) == StartsAt(toLowerCase(p), toLowerCase(primaryKeyword), 0)

ClaimedScore(p) ==
    LET points == 50
                  + (IF Len(p) \in 40..160 THEN 20
                     ELSE IF Len(p) \in 161..300 THEN 10 ELSE 0)
                  + (IF HasKeyword(p) THEN 15 ELSE 0)
                  + (IF StartsWithKeyword(p) THEN 10 ELSE 0)
                  + (IF hasDefinitionPattern(p) THEN 15 ELSE 0)
                  + (IF hasNumbersOrData(p) THEN 5 ELSE 0)
    IN  IF points > 100 THEN 100 ELSE points

Qualifies(p) == Len(p) \in 40..300 /\ HasKeyword(p) /\ ClaimedScore(p) >= 70

C15_DirectAnswer ==
    Optimized =>
        LET paras     == cleanParagraphs(content)
            qualified == {i \in 1..Len(paras) : Qualifies(paras[i])}
            answers   == SnippetsOf("paragraph")
        IN  /\ qualified = {} => answers = <<>>
            /\ qualified # {} =>
                /\ Len(answers) = 1
                /\ answers[1].content = paras[MinOf(qualified)]
                /\ answers[1].score = ClaimedScore(paras[MinOf(qualified)])
                /\ aeoResult[1].snippets[1] = answers[1]
            /\ \A i \in 1..Len(paras) :
                 (Len(paras[i]) = 50 /\ StartsWithKeyword(paras[i])
                  /\ hasDefinitionPattern(paras[i])) =>
                     scoreParagraphForAEO(paras[i], primaryKeyword) = 100

C15_Witness ==
    /\ Optimized
    /\ primaryKeyword = "seo"
    /\ content = ParagraphOf(OurSeo, 39) \o ParagraphOf(SeoIs, 50)
    /\ Len(SnippetsOf("paragraph")) = 1
    /\ SnippetsOf("paragraph")[1].content = "SEO is " \o Repeat("x", 43)
    /\ SnippetsOf("paragraph")[1].score = 100

\* C16: the overall AEO score is min(100, mean of the snippet scores +
\* bonus), the bonus being 10 for a paragraph snippet, 10 for a list, 10 for
\* a table and 15 for a FAQ; with no snippet it is 0.
ClaimedBonus ==
    (IF SnippetsOf("paragraph") # <<>> THEN 10 ELSE 0)
    + (IF SnippetsOf("list") # <<>> THEN 10 ELSE 0)
    + (IF SnippetsOf("table") # <<>> THEN 10 ELSE 0)
    + (IF SnippetsOf("faq") # <<>> THEN 15 ELSE 0)

C16_OverallScore ==
    Optimized =>
        LET snippets == aeoResult[1].snippets
            overall  == aeoResult[1].overallScore
            count    == Len(snippets)
            total    == SumOf(snippets, "score")
        IN  /\ count = 0 => overall = Div(0, 1)
            \* overall = min(100, total / count + bonus), times count
            /\ count > 0 =>
                overall.num * count
                    = overall.den * Min(100 * count, total + ClaimedBonus * count)

C16_Witness ==
    /\ Optimized
    /\ Len(aeoResult[1].snippets) = 1
    /\ SnippetsOf("paragraph") # <<>>
    /\ SnippetsOf("paragraph")[1].score = 75
    /\ aeoResult[1].overallScore = Div(85, 1)

(***************************************************************************)
(* What the linking engine's callers see.                                  *)
(***************************************************************************)
ClustersReturned == clusterPc = "done"
MembersOf(c) ==
    {c.pillarPage.id} \cup {c.clusterPages[i].id : i \in 1..Len(c.clusterPages)}

\* C11: identifyTopicClusters returns clusters in which each page is
\* claimed by at most one cluster: no page is pillar or related page of two
\* different clusters, and no pillar is among the related pages of another.
C11_PageInOneCluster ==
    ClustersReturned =>
        \A i, j \in 1..Len(clusters) :
            i # j => MembersOf(clusters[i]) \cap MembersOf(clusters[j]) = {}

\* An anchor opens inside another: a second "<a " before the "</a>" that
\* closes the first.
HasNestedAnchor(text) ==
    \E i \in 0..(Len(text) - 1) :
        /\ StartsAt(text, "<a ", i)
        /\ LET inner == IndexOf(text, "<a ", i + 1)
               close == IndexOf(text, "</a>", i)
           IN  inner # -1 /\ (close = -1 \/ inner < close)

\* C12: a second injectContextualLinks pass over the output of the first,
\* with the same opportunities, does not inject at an offset where the first
\* pass injected, and after it no text position carries two (nested or
\* duplicated) anchors for the same opportunity.
C12_SecondPassAddsNoAnchor ==
    (Len(linked) >= 2 /\ ~HasNestedAnchor(linked[1].content)) =>
        /\ linked[2].injected \cap linked[1].injected = {}
        /\ ~HasNestedAnchor(linked[2].content)


\* A fraction within [0,100].
InScoreRange(q) == q.num >= 0 /\ q.num <= 100 * q.den

\* C17: every score the engines report lies in [0,100]: the relevance score
\* of each link opportunity, each snippet score, the overall AEO score and
\* the topic relevance of each topic cluster.
C17_ScoresWithinRange ==
    /\ (linkOpportunities # None /\ linkOpportunities.status = "returned") =>
           \A i \in 1..Len(linkOpportunities.value) :
               linkOpportunities.value[i].relevanceScore \in 0..100
    /\ Optimized =>
           /\ \A i \in 1..Len(aeoResult[1].snippets) :
                  aeoResult[1].snippets[i].score \in 0..100
           /\ InScoreRange(aeoResult[1].overallScore)
    /\ \A i \in 1..Len(clusters) : InScoreRange(clusters[i].topicRelevance)

(***************************************************************************)
(* What the component's caller sees of a batch run.                        *)
(***************************************************************************)
RunEnded == pipePc \in {"completed", "caught"}

\* C13: in generateWithOptimizations a failure raised while one item is
\* post-processed does not affect the other items: every other successful
\* item is still enriched and onComplete still receives one result per item.
C13_FailureStaysWithItem ==
    RunEnded =>
        /\ completed # None
        /\ Len(completed[1]) = Len(contentItems)
        /\ \A i \in 1..Len(returned) :
               (~returnedAsIs(returned[i]) /\ ~enhanceThrows(returned[i], pages)) =>
                   /\ "metrics" \in DOMAIN completed[1][i]
                   /\ \E k \in 1..Len(recordedLogs) :
                          recordedLogs[k].id = contentItems[i].id

\* C14: in generateWithOptimizations, where the first three items are given
\* priority high and the rest medium, no medium-priority task has its
\* backend call started until every high-priority task has resolved or
\* failed.
C14_HighSettledBeforeMedium ==
    pipePc # "idle" =>
        \A i, j \in 1..Len(tasks) :
            (tasks[i].priority = "medium" /\ tasks[j].priority = "high"
             /\ callState[tasks[i].id] # "idle") =>
                callState[tasks[j].id] \notin {"idle", "pending"}

\* C29: with 6 to 9 samples in the window, getPerformanceTrend compares the
\* mean of the last 5 samples with the mean of the 1 to 4 samples before
\* them; it can answer improving or declining before 10 samples exist.
TrendOfPartialOlder(ms) ==
    LET n      == Len(ms)
        k      == n - 5
        recent == QualitySum(ms, n - 4, n)
        older  == QualitySum(ms, 1, k)
    IN  IF recent * k - older * 5 > 2 * 5 * k THEN "improving"
        ELSE IF recent * k - older * 5 < -(2 * 5 * k) THEN "declining"
        ELSE "stable"

C29_PartialOlderGroup ==
    (ret.op = "getPerformanceTrend" /\ Len(metrics) \in 6..9) =>
        /\ ret.value = Some(TrendOfPartialOlder(metrics))
        /\ Scores(metrics) = <<50>> \o Sixties => ret.value = Some("improving")
        /\ Scores(metrics) = <<60, 60, 60, 60>> \o Fifties =>
               ret.value = Some("declining")

C29_Witness ==
    /\ ret.op = "getPerformanceTrend"
    /\ Scores(metrics) = <<50, 55>> \o Sixties
    /\ ret.value = Some("improving")

\* C28: the overall AEO score is 0 when no snippet was produced and at least
\* 85 when any snippet was, never a value in between; the recommendation
\* emitted below 70 appears exactly when there is no snippet.
GenericRecommendation ==
    "Improve content structure with clear headers and direct answers to common questions"

Recommended(text) ==
    \E i \in 1..Len(aeoResult[1].recommendations) :
        aeoResult[1].recommendations[i] = text

C28_ScoreZeroOrHigh ==
    Optimized =>
        LET snippets == aeoResult[1].snippets
            overall  == aeoResult[1].overallScore
        IN  /\ snippets = <<>> => overall.num = 0
            /\ snippets # <<>> => overall.num >= 85 * overall.den
            /\ Recommended(GenericRecommendation) <=> snippets = <<>>

C28_Witness ==
    /\ Optimized
    /\ Len(aeoResult[1].snippets) = 1
    /\ SnippetsOf("paragraph") # <<>>
    /\ SnippetsOf("paragraph")[1].score = 75
    /\ aeoResult[1].overallScore = Div(85, 1)
    /\ ~Recommended(GenericRecommendation)

C28_NoSnippet ==
    /\ Optimized
    /\ aeoResult[1].snippets = <<>>
    /\ Recommended(GenericRecommendation)

\* C25: in a batch run whose post-processing raises no error, onComplete is
\* invoked once, with one result per submitted item; each result that
\* succeeded with non-empty data appended one metrics sample and one log
\* entry to the tracker, and each other result appended nothing and is
\* passed through unchanged.
Enhanced(n) == {i \in 1..n : ~returnedAsIs(returned[i])}

C25_AsDelivered ==
    completed # None =>
        /\ caught = None
        /\ Len(completed[1]) = Len(contentItems)
        /\ Len(metrics) = Cardinality(Enhanced(Len(returned)))
        /\ Len(logs) = Cardinality(Enhanced(Len(returned)))
        /\ \A i \in 1..Len(returned) :
               IF returned[i].success /\ payloadOf(returned[i]) # None
               THEN /\ "metrics" \in DOMAIN completed[1][i]
                    /\ LET k == Cardinality(Enhanced(i))
                       IN  /\ logs[k].id = contentItems[i].id
                           /\ metrics[k].contentQualityScore
                                  = completed[1][i].metrics.qualityScore
               ELSE completed[1][i] = returned[i]

C25_OneCompletion ==
    /\ []C25_AsDelivered
    /\ [][/\ completed # None => completed' = completed
          /\ Len(metrics') <= Len(metrics) + 1
          /\ Len(logs') <= Len(logs) + 1]_vars

C25_Witness ==
    /\ completed # None
    /\ Len(contentItems) = 3
    /\ returned[1].success /\ payloadOf(returned[1]) # None
    /\ ~returned[2].success
    /\ returned[3].success /\ payloadOf(returned[3]) = None
    /\ Len(metrics) = 1
    /\ Len(logs) = 1

\* C26: executeParallelBatch returns its results in submitted order, the
\* result at index i carrying the identifier of the task at index i whatever
\* succeeded or failed; in the pipeline the log entry recorded for a result
\* carries the identifier of the item that produced that result.
C26_SubmittedOrder ==
    (pc = "done" /\ entry = "executeParallelBatch") =>
        /\ Len(returned) = Len(tasks)
        /\ \A i \in 1..Len(returned) : returned[i].id = tasks[i].id
        /\ pipePc # "idle" =>
               \A i \in 1..Len(enhancedResults) :
                   ~returnedAsIs(returned[i]) =>
                       LET k == Cardinality(Enhanced(i))
                       IN  /\ k <= Len(logs)
                           /\ logs[k].id = returned[i].id
                           /\ logs[k].id = contentItems[i].id
                           /\ logs[k].id = tasks[i].id

C26_Witness ==
    /\ pc = "done"
    /\ pipePc = "idle"
    /\ Len(tasks) = 5
    /\ maxConcurrent = 2
    /\ callState = <<"ok", "nullish", "ok", "error", "ok">>
    /\ Ids(returned) = <<1, 2, 3, 4, 5>>

C26_LogOfSecondItem ==
    /\ completed # None
    /\ Len(contentItems) = 3
    /\ ~returned[1].success
    /\ Len(logs) = 2
    /\ logs[1].id = contentItems[2].id

\* C21: over a store that does not fail, once recordMetrics,
\* recordOptimization or clear has been called on a tracker, a tracker
\* constructed afterwards that calls loadFromStorage obtains windows equal,
\* entry by entry and in order, to those of the first tracker; after clear
\* both are empty.
Called == ret.op \in {"recordMetrics", "recordOptimization", "clear", "loadFromStorage"}

FreshTrackerMirrors ==
    /\ metrics' = metrics
    /\ logs' = logs
    /\ ret.op = "clear" => (metrics' = <<>> /\ logs' = <<>>)

C21_StoreMirrorsMemory == [][(Called /\ freshLoad) => FreshTrackerMirrors]_vars

C21_Witness ==
    /\ ret.op = "loadFromStorage"
    /\ Len(recordedMetrics) = 2
    /\ Len(metrics) = 1
    /\ Len(logs) = 2
    /\ storage.performanceMetrics = Some(JSONstringify(metrics))
    /\ storage.optimizationLogs = Some(JSONstringify(logs))

\* C22: generateLinkOpportunities returns a subsequence of the top-scored
\* candidates (the N <= maxLinks taken after the sort), in score order, that
\* starts with the highest-scored candidate and in which every later entry
\* lies at least floor(textLength / (N + 1)) characters after the entry kept
\* before it; so the returned offsets never decrease, there are at most
\* maxLinks entries, and the result is non-empty whenever there is a
\* candidate and maxLinks >= 1.
OpportunitiesReturned ==
    linkOpportunities # None /\ linkOpportunities.status = "returned"

Candidates ==
    opportunitiesOf(linkContent, extractSentences(linkContent), pages)

\* Whether `kept` is `top` with entries left out.
RECURSIVE IsSubsequence(_, _)
IsSubsequence(kept, top) ==
    IF kept = <<>> THEN TRUE
    ELSE IF top = <<>> THEN FALSE
    ELSE IF Head(kept) = Head(top) THEN IsSubsequence(Tail(kept), Tail(top))
    ELSE IsSubsequence(kept, Tail(top))

SpacedFrom(kept, top, textLength) ==
    /\ IsSubsequence(kept, top)
    /\ Len(top) > 0 => (kept # <<>> /\ kept[1] = top[1])
    /\ \A k \in 2..Len(kept) :
           /\ kept[k].position - kept[k - 1].position
                  >= textLength \div (Len(top) + 1)
           /\ kept[k].position >= kept[k - 1].position
           /\ kept[k].relevanceScore <= kept[k - 1].relevanceScore

C22_SpacedSubsequence ==
    OpportunitiesReturned =>
        /\ SpacedFrom(linkOpportunities.value,
                      sortedOpportunities(Candidates, linkLimit), Len(linkContent))
        /\ Len(sortedOpportunities(Candidates, linkLimit)) <= linkLimit
        /\ Len(linkOpportunities.value) <= linkLimit
        /\ (Candidates # <<>> /\ linkLimit >= 1) => linkOpportunities.value # <<>>

C22_Witness ==
    /\ OpportunitiesReturned
    /\ Len(Candidates) = 3
    /\ linkLimit = 15
    /\ Len(linkOpportunities.value) = 2
    /\ linkOpportunities.value[1].position = 12
    /\ linkOpportunities.value[2].position = 31

(***************************************************************************)
(* What one call of injectContextualLinks does, turn by turn.              *)
(***************************************************************************)
TextBefore(k) == IF k = 1 THEN linkContent ELSE linked[k - 1].content

\* The offsets in `text` where the anchor text of `opp` starts fewer than
\* 200 characters after the recorded offset.
OccurrencesNear(text, opp) ==
    {i \in opp.position..(Len(text) - Len(opp.anchorText)) :
        /\ i - opp.position < 200
        /\ SubSeq(text, i + 1, i + Len(opp.anchorText)) = opp.anchorText}

AnchorOf(opp) ==
    "<a href=\"/" \o opp.toPage \o "\" class=\"internal-link\">"
    \o opp.anchorText \o "</a>"

\* `text` with the occurrence at offset m wrapped and nothing else changed.
WrappedAt(text, opp, m) ==
    SubSeq(text, 1, m) \o AnchorOf(opp)
    \o SubSeq(text, m + Len(opp.anchorText) + 1, Len(text))

\* Whether the k-th opportunity was injected, and the offsets at which the
\* opportunities before the k-th were.
InjectedAtTurn(k) == linked[k].content # TextBefore(k)

OffsetsUsedBefore(k) ==
    {MinOf(OccurrencesNear(TextBefore(j), linkOpportunities.value[j])) :
        j \in {i \in 1..(k - 1) : InjectedAtTurn(i)}}

FirstNearWrapped(k, skipped) ==
    LET opp  == linkOpportunities.value[k]
        near == OccurrencesNear(TextBefore(k), opp)
    IN  IF skipped \/ near = {}
        THEN linked[k].content = TextBefore(k)
        ELSE linked[k].content = WrappedAt(TextBefore(k), opp, MinOf(near))

WholeCallAgrees ==
    Len(linked) = Len(linkOpportunities.value) =>
        injectContextualLinksOf(linkContent, linkOpportunities.value).content
            = TextBefore(Len(linked) + 1)

\* C23 as stated: for each opportunity in list order, if the anchor text has
\* no occurrence starting fewer than 200 characters after the recorded
\* offset in the current text the text is left unchanged, and otherwise
\* exactly the first such occurrence is wrapped in an anchor and nothing
\* else changes; with an empty list the output equals the input.
C23_FirstOccurrenceWrapped ==
    /\ \A k \in 1..Len(linked) : FirstNearWrapped(k, FALSE)
    /\ WholeCallAgrees

\* C23, amended: for each opportunity in list order, if its recorded offset
\* is an offset at which an earlier opportunity of the call was injected, or
\* the anchor text has no occurrence starting fewer than 200 characters
\* after the recorded offset in the current text, the text is left
\* unchanged; otherwise exactly the first such occurrence is wrapped in an
\* anchor and nothing else changes; with an empty list the output equals
\* the input.
C23_FirstOccurrenceWrappedUnlessUsed ==
    /\ \A k \in 1..Len(linked) :
           FirstNearWrapped(k, linkOpportunities.value[k].position
                                  \in OffsetsUsedBefore(k))
    /\ WholeCallAgrees

C23_Witness ==
    /\ Len(linked) = 2
    /\ linkOpportunities.value[1] = OpportunityAt(9, "watches", "best-trainers")
    /\ linkOpportunities.value[2] = OpportunityAt(0, "watches", "best-trainers")
    /\ linked[1].content = "cycling " \o Repeat("far ", 50)
                               \o "<a href=\"/best-trainers\" class=\"internal-link\">watches</a>"
    /\ linked[2].content = linked[1].content

\* C24: within one injectContextualLinks call, of two opportunities with the
\* same recorded offset at most one is injected: once an opportunity
\* recorded at an offset has been injected, a later opportunity recorded at
\* that offset is skipped.
C24_SameOffsetInjectedOnce ==
    \A j, k \in 1..Len(linked) :
        (j < k /\ linkOpportunities.value[j].position
                     = linkOpportunities.value[k].position
         /\ InjectedAtTurn(j)) => ~InjectedAtTurn(k)

\* C30: within one injectContextualLinks call over the list that
\* generateLinkOpportunities produced for the same text, no anchor is
\* inserted inside markup an earlier opportunity of the call inserted: the
\* output has no nested or tag-breaking anchors, and with the anchor tags
\* removed it is the original text.
C30_NoAnchorInsideInsertedMarkup ==
    (OpportunitiesReturned /\ Len(linked) >= 1) =>
        /\ HasNestedAnchor(linkContent) \/ ~HasNestedAnchor(linked[1].content)
        /\ Includes(linkContent, "<") \/ StripTags(linked[1].content) = linkContent

\* C27: for every finite batch and every integer concurrency limit the
\* engine can be constructed with, 0 and negative values included,
\* executeBatch and executeParallelBatch eventually return, provided every
\* backend call eventually resolves or fails.
C27_EventuallyReturns == <>(pc = "done")

\* With a limit of 1 or more the loop ends with the chunks of chunkTasks.
ChunksAsComputed ==
    (pc = "nextChunk" /\ maxConcurrent >= 1 /\ dispatched[Len(dispatched)].windows = <<>>) =>
         chunks = chunkTasks(chunkedTasks, maxConcurrent)

=============================================================================
